---- MODULE Spec2Model ----
(***************************************************************************)
(* Verification model of the CIFIX LEARN backend (FastAPI + SQLAlchemy).   *)
(*                                                                         *)
(* Time is counted in seconds, as datetime.utcnow() / time.time() are.     *)
(* UUID primary keys are modelled as small positive integers; 0 stands for *)
(* "no row" (None).  A bcrypt hash is modelled as a tagged copy of the     *)
(* password, so verify_password is true exactly for the hashed password.   *)
(* Strings that the code inspects character by character (emails,          *)
(* passwords) are sequences of one-character strings.                      *)
(*                                                                         *)
(* The database layer is taken to work as declared: a query returns the    *)
(* rows its filter selects, and is_admin is read as a column of users.     *)
(* The Python control flow of handlers, decorators and middleware is       *)
(* modelled as written.  Audit rows written by the analytics service are   *)
(* kept only as far as a property reads them.  A request runs in its own   *)
(* database session; requests that overlap are modelled by a begin and a   *)
(* commit action with the session's reads and writes held in pending.      *)
(***************************************************************************)
EXTENDS Integers, Sequences, FiniteSets, TLC

VARIABLES
    users,        \* users table: id -> row
    students,     \* students table: id -> row
    tokens,       \* access tokens issued so far (JWT payloads)
    now,          \* the clock
    resp,         \* the response of the last call
    fifth_at,     \* history: per user, time the running failure count reached 5
    last_fail,    \* history: per user, time of the latest failed login
    pw_input,     \* the password handed to validate_password
    pw_outcome,   \* what validate_password made of it (<<>> before the call)
    rate_limit_storage,  \* _rate_limit_storage: key -> (window start -> count)
    rl_log,       \* history: key -> times of the calls the decorator let through
    mw_requests,  \* RateLimitMiddleware.requests: ip -> times
    mw_log,       \* history: ip -> times of the requests passed to the application
    student_assessments,      \* student_assessments table: id -> row
    student_learning_paths,   \* student_learning_paths table: id -> row
    student_module_progress,  \* student_module_progress table: id -> row
    student_achievements,     \* student_achievements table: id -> row
    user_actions,             \* analytics: <<student, activity type>> of tracked activity
    content_engagement,       \* analytics: <<student, module>> of tracked engagement
    error_logs,               \* error_logs table: id -> row
    security_headers,         \* headers SecurityHeadersMiddleware put on the last response
    pending                   \* database sessions in flight: request -> what it read and wrote

accountVars == <<users, students, tokens, fifth_at, last_fail>>
passwordVars == <<pw_input, pw_outcome>>
limiterVars == <<rate_limit_storage, rl_log>>
middlewareVars == <<mw_requests, mw_log, error_logs, security_headers>>
sessionVars == <<pending>>
learningVars == <<student_assessments, student_learning_paths, student_module_progress,
                  student_achievements, user_actions, content_engagement>>

vars == <<accountVars, now, resp, passwordVars, sessionVars, limiterVars, middlewareVars, learningVars>>

(***************************************************************************)
(* Bounds of the model                                                     *)
(***************************************************************************)
MaxUsers == 3          \* rows in the users table (the seeded admin included)
MaxTokens == 3         \* access tokens issued
MaxFailed == 6         \* cap on failed_login_attempts
LoginTicks == 4        \* clock steps of a quarter of an hour (login and lockout)
TokenTicks == 3        \* clock steps of half an hour (tokens)
MaxPasswordLen == 8    \* characters typed into a password
RateTicks == 2         \* clock steps of half a rate-limit window
calls == 2             \* RateLimitMiddleware's calls parameter (main.py passes 1000)
MaxModules == 2        \* seeded modules of a learning path kept in the model
MwTicks == 2           \* clock steps of half a middleware period
MaxErrors == 2         \* rows in the error_logs table
MaxPending == 2        \* database sessions in flight at once

(***************************************************************************)
(* Program constants                                                       *)
(***************************************************************************)
PASSWORD_MIN_LENGTH == 8
SESSION_TIMEOUT == 86400
EXPIRES_IN == 3600
MAX_FAILED_LOGINS == 5
LOCKOUT_SECONDS == 30 * 60
REGISTER_LIMIT == 3
LOGIN_LIMIT == 5
AUTH_WINDOW == 300
period == 3600
MIN_AGE == 5
MAX_AGE == 18
VERIFICATION_SECONDS == 24 * 3600
QuarterHour == 15 * 60
HalfHour == 30 * 60

None == 0
\* NULL in a token column
NoToken == <<>>
NoTime == -1

(***************************************************************************)
(* Characters and strings                                                  *)
(***************************************************************************)
UpperSeq == <<"A","B","C","D","E","F","G","H","I","J","K","L","M",
              "N","O","P","Q","R","S","T","U","V","W","X","Y","Z">>
LowerSeq == <<"a","b","c","d","e","f","g","h","i","j","k","l","m",
              "n","o","p","q","r","s","t","u","v","w","x","y","z">>
UpperChars == {UpperSeq[i] : i \in DOMAIN UpperSeq}
LowerChars == {LowerSeq[i] : i \in DOMAIN LowerSeq}
DigitChars == {"0","1","2","3","4","5","6","7","8","9"}
\* the character class of the special-character check
SpecialChars == {"!","@","#","$","%","^","&","*","(",")","_","+","-","=",
                 "[","]","{","}",";","'",":","\"","\\","|",",",".","<",">","?"}

\* str.lower() on one character
LowerChar(c) ==
    IF c \in UpperChars
    THEN LowerSeq[CHOOSE i \in DOMAIN UpperSeq : UpperSeq[i] = c]
    ELSE c

\* str.lower()
Lower(s) == [i \in DOMAIN s |-> LowerChar(s[i])]

(***************************************************************************)
(* core/security.py                                                        *)
(***************************************************************************)
REQUIRE_STRONG_PASSWORDS == TRUE

common_passwords ==
    { <<"p","a","s","s","w","o","r","d">>,
      <<"1","2","3","4","5","6">>,
      <<"p","a","s","s","w","o","r","d","1","2","3">>,
      <<"a","d","m","i","n">>,
      <<"l","e","t","m","e","i","n">> }

HasChar(password, class) == \E i \in DOMAIN password : password[i] \in class

\* The five checks in the order the code makes them, each with the score it
\* adds on success and the feedback it appends on failure.
LengthOk(password) == Len(password) >= PASSWORD_MIN_LENGTH
IsCommon(password) == Lower(password) \in common_passwords

PasswordScore(password) ==
    IF IsCommon(password) THEN 0
    ELSE (IF LengthOk(password) THEN 2 ELSE 0)
       + (IF HasChar(password, UpperChars) THEN 1 ELSE 0)
       + (IF HasChar(password, LowerChars) THEN 1 ELSE 0)
       + (IF HasChar(password, DigitChars) THEN 1 ELSE 0)
       + (IF HasChar(password, SpecialChars) THEN 2 ELSE 0)

PasswordFeedback(password) ==
      (IF LengthOk(password) THEN <<>> ELSE <<"length">>)
   \o (IF HasChar(password, UpperChars) THEN <<>> ELSE <<"uppercase">>)
   \o (IF HasChar(password, LowerChars) THEN <<>> ELSE <<"lowercase">>)
   \o (IF HasChar(password, DigitChars) THEN <<>> ELSE <<"number">>)
   \o (IF HasChar(password, SpecialChars) THEN <<>> ELSE <<"special">>)
   \o (IF IsCommon(password) THEN <<"common">> ELSE <<>>)

validate_password_strength(password) ==
    [ is_valid       |-> IF REQUIRE_STRONG_PASSWORDS
                         THEN PasswordScore(password) >= 5
                         ELSE PasswordScore(password) >= 2,
      strength_score |-> PasswordScore(password),
      feedback       |-> PasswordFeedback(password) ]

\* validate_password raises (400) exactly when is_valid is false
validate_password(password) == validate_password_strength(password).is_valid

\* validate_email: ^[a-zA-Z0-9._%+-]+@[a-zA-Z0-9.-]+\.[a-zA-Z]{2,}$
Letters == UpperChars \cup LowerChars
LocalChars == Letters \cup DigitChars \cup {".","_","%","+","-"}
DomainChars == Letters \cup DigitChars \cup {".","-"}
AllIn(s, lo, hi, class) == \A k \in lo..hi : s[k] \in class
validate_email(email) ==
    \E i \in DOMAIN email : \E j \in DOMAIN email :
        /\ email[i] = "@" /\ i > 1 /\ AllIn(email, 1, i - 1, LocalChars)
        /\ j > i + 1 /\ email[j] = "." /\ AllIn(email, i + 1, j - 1, DomainChars)
        /\ Len(email) >= j + 2 /\ AllIn(email, j + 1, Len(email), Letters)

validate_student_age(age) == MIN_AGE <= age /\ age <= MAX_AGE

\* passlib: hash, and verify against a hash
get_password_hash(password) == <<"bcrypt", password>>
verify_password(plain_password, hashed_password) ==
    hashed_password = <<"bcrypt", plain_password>>

\* jose.jwt.encode of {sub, exp, iat} under JWT_SECRET
create_access_token_for_user(user_id) ==
    [sub |-> user_id, iat |-> now, exp |-> now + SESSION_TIMEOUT, sig |-> "valid"]

\* jose.jwt.decode: the signature must verify and exp must not lie in the past
verify_token(token) == token.sig = "valid" /\ ~(token.exp < now)

(***************************************************************************)
(* Inputs                                                                  *)
(***************************************************************************)
Email(c) == <<c, "@", "x", ".", "i", "o">>
PwStrong == <<"S","e","c","r","e","t","1","!">>
PwOther == <<"O","t","h","e","r","9","?","x">>
Ages == {4, 5, 18, 19}

\* init_db.py seeds one administrator account (admin@cifixlearn.com)
ADMIN_ID == 1
ADMIN_EMAIL == Email("r")
ADMIN_PASSWORD == <<"C","i","f","i","x","A","d","m","i","n","2","0","2","4","!">>

\* the server's own host, which no limiter counts, and a client elsewhere
LOCALHOST == "127.0.0.1"
REMOTE == "203.0.113.7"
OTHER_REMOTE == "198.51.100.9"
Clients == {LOCALHOST, REMOTE}

UserIds == 1..MaxUsers
\* a token whose signature does not verify under JWT_SECRET
ForgedTokens == {[sub |-> u, iat |-> 0, exp |-> SESSION_TIMEOUT, sig |-> "forged"] : u \in UserIds}

(***************************************************************************)
(* Tables                                                                  *)
(***************************************************************************)
Ext(f, k, v) == [x \in DOMAIN f \cup {k} |-> IF x = k THEN v ELSE f[x]]
NewId(table) == Cardinality(DOMAIN table) + 1

\* secrets.token_urlsafe(32): no two users are given the same token
generate_verification_token(user_id) == <<"verification", user_id>>

NewUser(email, password) ==
    [ email                 |-> Lower(email),
      password_hash         |-> get_password_hash(password),
      is_active             |-> TRUE,
      is_admin              |-> FALSE,
      failed_login_attempts |-> 0,
      locked_until          |-> NoTime,
      email_verified             |-> FALSE,
      email_verification_token   |-> generate_verification_token(NewId(users)),
      email_verification_expires |-> now + VERIFICATION_SECONDS ]

NewStudent(user_id, age) ==
    [ user_id |-> user_id, age |-> age, is_active |-> TRUE ]

\* Result.scalar_one_or_none() over the ids a query selects
scalar_one_or_none(ids) == IF ids = {} THEN None ELSE CHOOSE i \in ids : TRUE

\* scalar_one_or_none() raises MultipleResultsFound when the query selects
\* more than one row
MultipleResultsFound(ids) == Cardinality(ids) > 1

\* What the last call was (op, arg) and what it answered: the status code, the
\* authenticated or affected user, the student whose data the body carries,
\* and the detail message.
Response(op, arg, status, user, student, detail) ==
    [op |-> op, arg |-> arg, status |-> status, user |-> user,
     student |-> student, detail |-> detail, headers |-> <<>>, data |-> <<>>]

\* select(User).where(User.email == email): the comparison is case-sensitive
UserByEmail(email) ==
    IF \E u \in DOMAIN users : users[u].email = email
    THEN CHOOSE u \in DOMAIN users : users[u].email = email
    ELSE None

(***************************************************************************)
(* middleware/__init__.py: the per-endpoint rate limiters                  *)
(***************************************************************************)
LocalHosts == {"127.0.0.1", "localhost", "::1"}

\* identifier = str(user_id) if user_id else client_ip; nothing ever sets
\* request.state.user_id, so user_id is None
Identifier(client_ip, user_id) == IF user_id # None THEN user_id ELSE client_ip

\* key = f"{func.__name__}:{identifier}"
Key(func, client_ip) == <<func, Identifier(client_ip, None)>>

\* _rate_limit_storage[key] after "Remove old entries"
Cleaned(key, window) ==
    LET old == IF key \in DOMAIN rate_limit_storage THEN rate_limit_storage[key] ELSE <<>>
    IN [timestamp \in {t \in DOMAIN old : now - t < window} |-> old[timestamp]]

\* sum(entries.values())
RECURSIVE SumValues(_)
SumValues(entries) ==
    IF DOMAIN entries = {} THEN 0
    ELSE LET t == CHOOSE x \in DOMAIN entries : TRUE
         IN entries[t] + SumValues([x \in DOMAIN entries \ {t} |-> entries[x]])

\* window_start = int(current_time // window) * window
WindowStart(window) == (now \div window) * window

\* "Record this request"
Recorded(entries, window) ==
    LET window_start == WindowStart(window)
    IN Ext(entries, window_start,
           (IF window_start \in DOMAIN entries THEN entries[window_start] ELSE 0) + 1)

\* the test that raises 429, with > in place of >=
OverLimit_mut(total_requests, requests) == total_requests > requests

\* the test that raises 429
OverLimit(total_requests, requests) == total_requests >= requests

\* the wrapper the three decorators share: func is the endpoint's name, arg
\* its arguments and Handler the endpoint's body
RateLimitWrapper(func, requests, window, client_ip, arg, Handler) ==
    IF client_ip \in LocalHosts THEN
        /\ Handler
        /\ UNCHANGED limiterVars
    ELSE
        LET key == Key(func, client_ip)
            entries == Cleaned(key, window)
        IN IF OverLimit(SumValues(entries), requests) THEN
               /\ rate_limit_storage' = Ext(rate_limit_storage, key, entries)
               /\ resp' = Response(func, arg, 429, None, None, "Rate limit exceeded. Too many requests.")
               /\ UNCHANGED <<accountVars, now, passwordVars, sessionVars, learningVars, rl_log, middlewareVars>>
           ELSE
               /\ rate_limit_storage' = Ext(rate_limit_storage, key, Recorded(entries, window))
               /\ rl_log' = Ext(rl_log, key,
                                (IF key \in DOMAIN rl_log THEN rl_log[key] ELSE <<>>) \o <<now>>)
               /\ Handler

rate_limit_strict(func, requests, window, client_ip, arg, Handler) ==
    RateLimitWrapper(func, requests, window, client_ip, arg, Handler)

(***************************************************************************)
(* routers/auth.py                                                         *)
(***************************************************************************)
\* get_current_user without the User.is_active == True filter
get_current_user_mut(token) ==
    IF ~verify_token(token) THEN None
    ELSE IF token.sub \in DOMAIN users THEN token.sub
    ELSE None

\* get_current_user: the user a bearer token authenticates, or None (401)
get_current_user(token) ==
    IF ~verify_token(token) THEN None
    ELSE IF token.sub \in DOMAIN users /\ users[token.sub].is_active THEN token.sub
    ELSE None

\* the dependency on its own, as it runs first in every authenticated endpoint
GetCurrentUser(token) ==
    /\ UNCHANGED <<passwordVars, sessionVars, learningVars, limiterVars, middlewareVars>>
    /\ /\ resp' = IF get_current_user(token) = None
                  THEN Response("get_current_user", token, 401, None, None, "Could not validate credentials")
                  ELSE Response("get_current_user", token, 200, get_current_user(token), None, "")
       /\ UNCHANGED <<users, students, tokens, now, fifth_at, last_fail>>

\* the existing-email check of register
EmailTaken(email) == UserByEmail(email) # None

\* the body of register
RegisterHandler(client_ip, email, password, age) ==
    /\ UNCHANGED <<passwordVars, sessionVars, learningVars, middlewareVars>>
    /\ IF ~validate_email(email) THEN
           /\ resp' = Response("register", <<email, password, age, client_ip>>, 400, None, None, "Invalid email format")
           /\ UNCHANGED <<users, students, tokens, now, fifth_at, last_fail>>
       ELSE IF ~validate_password(password) THEN
           /\ resp' = Response("register", <<email, password, age, client_ip>>, 400, None, None, "Password does not meet requirements")
           /\ UNCHANGED <<users, students, tokens, now, fifth_at, last_fail>>
       ELSE IF ~validate_student_age(age) THEN
           /\ resp' = Response("register", <<email, password, age, client_ip>>, 400, None, None, "Student age must be between 5 and 18 years")
           /\ UNCHANGED <<users, students, tokens, now, fifth_at, last_fail>>
       ELSE IF EmailTaken(email) THEN
           /\ resp' = Response("register", <<email, password, age, client_ip>>, 400, None, None, "Email address is already registered")
           /\ UNCHANGED <<users, students, tokens, now, fifth_at, last_fail>>
       ELSE IF UserByEmail(Lower(email)) # None THEN
           \* db.flush() violates the unique index on users.email; the handler
           \* rolls back and answers 500
           /\ resp' = Response("register", <<email, password, age, client_ip>>, 500, None, None, "Registration failed. Please try again.")
           /\ UNCHANGED <<users, students, tokens, now, fifth_at, last_fail>>
       ELSE
           /\ Cardinality(DOMAIN users) < MaxUsers
           /\ LET uid == NewId(users)
                  sid == NewId(students)
                  token == create_access_token_for_user(uid)
              IN /\ users' = Ext(users, uid, NewUser(email, password))
                 /\ students' = Ext(students, sid, NewStudent(uid, age))
                 /\ Cardinality(tokens \cup {token}) <= MaxTokens
                 /\ tokens' = tokens \cup {token}
                 /\ resp' = Response("register", <<email, password, age, client_ip>>, 201, uid, None, "")
           /\ UNCHANGED <<now, fifth_at, last_fail>>

\* select(User).where(User.email == email.lower(), User.is_active == True)
ActiveUserByEmail(email) ==
    IF \E u \in DOMAIN users : users[u].email = Lower(email) /\ users[u].is_active
    THEN CHOOSE u \in DOMAIN users : users[u].email = Lower(email) /\ users[u].is_active
    ELSE None

\* the lock test with >= in place of >
IsLocked_mut(user) == user.locked_until # NoTime /\ user.locked_until >= now

\* the lock test of login
IsLocked(user) == user.locked_until # NoTime /\ user.locked_until > now

\* a failed login that locks only after more than five failures
FailedLogin_mut(user) ==
    LET n == user.failed_login_attempts + 1
    IN [user EXCEPT !.failed_login_attempts = n,
                    !.locked_until = IF n > MAX_FAILED_LOGINS
                                     THEN now + LOCKOUT_SECONDS
                                     ELSE user.locked_until]

\* the row of a user after one more failed login
FailedLogin(user) ==
    LET n == user.failed_login_attempts + 1
    IN [user EXCEPT !.failed_login_attempts = n,
                    !.locked_until = IF n >= MAX_FAILED_LOGINS
                                     THEN now + LOCKOUT_SECONDS
                                     ELSE user.locked_until]

\* the body of login
LoginHandler(client_ip, email, password) ==
    /\ UNCHANGED <<passwordVars, sessionVars, learningVars, middlewareVars>>
    /\ LET u == ActiveUserByEmail(email)
       IN IF u = None THEN
              /\ resp' = Response("login", <<email, password, client_ip>>, 401, None, None, "Incorrect email or password")
              /\ UNCHANGED <<users, students, tokens, now, fifth_at, last_fail>>
          ELSE IF ~verify_password(password, users[u].password_hash) THEN
              /\ users[u].failed_login_attempts < MaxFailed
              /\ users' = [users EXCEPT ![u] = FailedLogin(users[u])]
              /\ resp' = Response("login", <<email, password, client_ip>>, 401, u, None, "Incorrect email or password")
              /\ last_fail' = [last_fail EXCEPT ![u] = now]
              /\ fifth_at' = [fifth_at EXCEPT ![u] =
                                 IF users[u].failed_login_attempts + 1 = MAX_FAILED_LOGINS
                                 THEN now ELSE @]
              /\ UNCHANGED <<students, tokens, now>>
          ELSE IF IsLocked(users[u]) THEN
              /\ resp' = Response("login", <<email, password, client_ip>>, 423, u, None, "Account is temporarily locked")
              /\ UNCHANGED <<users, students, tokens, now, fifth_at, last_fail>>
          ELSE
              LET token == create_access_token_for_user(u)
              IN /\ Cardinality(tokens \cup {token}) <= MaxTokens
                 /\ users' = [users EXCEPT ![u].failed_login_attempts = 0,
                                           ![u].locked_until = NoTime]
                 /\ tokens' = tokens \cup {token}
                 /\ resp' = Response("login", <<email, password, client_ip>>, 200, u, None, "")
                 /\ UNCHANGED <<students, now, fifth_at, last_fail>>

\* POST /register, @rate_limit_strict(requests=3, window=300)
Register(client_ip, email, password, age) ==
    rate_limit_strict("register", REGISTER_LIMIT, AUTH_WINDOW, client_ip,
                      <<email, password, age, client_ip>>,
                      RegisterHandler(client_ip, email, password, age))

\* POST /login, @rate_limit_strict(requests=5, window=300)
Login(client_ip, email, password) ==
    rate_limit_strict("login", LOGIN_LIMIT, AUTH_WINDOW, client_ip,
                      <<email, password, client_ip>>,
                      LoginHandler(client_ip, email, password))

\* the body of verify_email
VerifyEmailHandler(token) ==
    LET user == scalar_one_or_none({u \in DOMAIN users :
            /\ users[u].email_verification_token = token
            /\ users[u].email_verification_expires > now
            /\ users[u].is_active})
    IN IF user = None THEN
           /\ resp' = Response("verify_email", <<token>>, 400, None, None, "Invalid or expired verification token")
           /\ UNCHANGED <<accountVars, now, passwordVars, sessionVars, learningVars, limiterVars>>
       ELSE
           /\ users' = [users EXCEPT ![user].email_verified = TRUE,
                                     ![user].email_verification_token = NoToken,
                                     ![user].email_verification_expires = NoTime]
           /\ resp' = Response("verify_email", <<token>>, 200, user, None, "Email verified successfully")
           /\ UNCHANGED <<students, tokens, fifth_at, last_fail, now, passwordVars, sessionVars,
                          learningVars, limiterVars>>

\* The decorators' wrapper(request, *args, **kwargs) around an endpoint that
\* declares no request parameter: FastAPI calls the wrapper with the
\* endpoint's own parameters, by keyword, so the call raises TypeError
\* (request is missing) and the endpoint's body does not run.
WrapperWithoutRequest(func, arg, Handler) ==
    /\ resp' = Response(func, arg, 500, None, None, "Internal Server Error")
    /\ UNCHANGED <<accountVars, now, passwordVars, sessionVars, learningVars, limiterVars>>

\* POST /verify-email/{token}, @rate_limit_normal(requests=10, window=60)
verify_email(token) ==
    WrapperWithoutRequest("verify_email", <<token>>, VerifyEmailHandler(token))

(***************************************************************************)
(* routers/admin.py                                                        *)
(***************************************************************************)
\* verify_admin_user that lets every authenticated user through
verify_admin_user_mut(current_user) == TRUE

\* verify_admin_user: whether the dependency returns the user (else 403)
verify_admin_user(current_user) == users[current_user].is_admin

\* deactivate_user that leaves the students as they are
DeactivatedStudents_mut(user_id) == students

\* update(Student).where(Student.user_id == target_user.id).values(is_active=False)
DeactivatedStudents(user_id) ==
    [s \in DOMAIN students |->
        IF students[s].user_id = user_id
        THEN [students[s] EXCEPT !.is_active = FALSE]
        ELSE students[s]]

\* DELETE /users/{user_id}/deactivate
\* (the audit rows of analytics.track_user_action are not part of the state)
DeactivateUser(token, user_id) ==
    /\ UNCHANGED <<passwordVars, sessionVars, learningVars, limiterVars, middlewareVars>>
    /\ LET admin == get_current_user(token)
       IN IF admin = None THEN
              /\ resp' = Response("deactivate_user", <<token, user_id>>, 401, None, None, "Could not validate credentials")
              /\ UNCHANGED <<users, students, tokens, now, fifth_at, last_fail>>
          ELSE IF ~verify_admin_user(admin) THEN
              /\ resp' = Response("deactivate_user", <<token, user_id>>, 403, admin, None, "Admin privileges required")
              /\ UNCHANGED <<users, students, tokens, now, fifth_at, last_fail>>
          ELSE IF user_id \notin DOMAIN users THEN
              /\ resp' = Response("deactivate_user", <<token, user_id>>, 404, admin, None, "User not found")
              /\ UNCHANGED <<users, students, tokens, now, fifth_at, last_fail>>
          ELSE IF user_id = admin THEN
              /\ resp' = Response("deactivate_user", <<token, user_id>>, 400, admin, None, "Cannot deactivate your own account")
              /\ UNCHANGED <<users, students, tokens, now, fifth_at, last_fail>>
          ELSE
              /\ users' = [users EXCEPT ![user_id].is_active = FALSE]
              /\ students' = DeactivatedStudents(user_id)
              /\ resp' = Response("deactivate_user", <<token, user_id>>, 200, admin, None, "")
              /\ UNCHANGED <<tokens, now, fifth_at, last_fail>>

(***************************************************************************)
(* init_db.py: the seeded catalogue                                        *)
(***************************************************************************)
GAME_PATH == 1
AI_PATH == 2
WEB_PATH == 3
GENERAL_PATH == 7

\* the seven seeded learning paths, <<name, slug>>, in the order of their ids
SeededPaths ==
    << <<<<"G","a","m","e"," ","D","e","v","e","l","o","p","m","e","n","t">>,
         <<"g","a","m","e","-","d","e","v","e","l","o","p","m","e","n","t">>>>,
       <<<<"A","I"," ","&"," ","M","a","c","h","i","n","e"," ","L","e","a","r","n","i","n","g">>,
         <<"a","i","-","m","a","c","h","i","n","e","-","l","e","a","r","n","i","n","g">>>>,
       <<<<"W","e","b"," ","D","e","v","e","l","o","p","m","e","n","t">>,
         <<"w","e","b","-","d","e","v","e","l","o","p","m","e","n","t">>>>,
       <<<<"R","o","b","o","t","i","c","s">>,
         <<"r","o","b","o","t","i","c","s">>>>,
       <<<<"D","a","t","a"," ","S","c","i","e","n","c","e">>,
         <<"d","a","t","a","-","s","c","i","e","n","c","e">>>>,
       <<<<"M","o","b","i","l","e"," ","A","p","p"," ","D","e","v","e","l","o","p","m","e","n","t">>,
         <<"m","o","b","i","l","e","-","a","p","p","-","d","e","v","e","l","o","p","m","e","n","t">>>>,
       <<<<"G","e","n","e","r","a","l"," ","P","r","o","g","r","a","m","m","i","n","g">>,
         <<"g","e","n","e","r","a","l","-","p","r","o","g","r","a","m","m","i","n","g">>>> >>

learning_paths ==
    [p \in DOMAIN SeededPaths |->
        [ name |-> SeededPaths[p][1], slug |-> SeededPaths[p][2], is_active |-> TRUE ]]

\* the paths init_db.py seeds modules for; the other four have none
PathsWithModules == {GAME_PATH, AI_PATH, WEB_PATH}

\* the id of the module with sort_order k of a path
ModuleOf(path, k) == (path - 1) * MaxModules + k

\* the first MaxModules seeded modules of each of these paths, in sort order
learning_modules ==
    [m \in {ModuleOf(p, k) : p \in PathsWithModules, k \in 1..MaxModules} |->
        [ path_id |-> ((m - 1) \div MaxModules) + 1,
          sort_order |-> ((m - 1) % MaxModules) + 1,
          is_locked |-> ((m - 1) % MaxModules) + 1 > 1,
          is_active |-> TRUE ]]

achievement_types ==
    {"First Steps", "Quick Learner", "Path Completer", "Perfect Score", "Learning Streak"}

(***************************************************************************)
(* services/learning_service.py                                            *)
(***************************************************************************)
\* key in path_key
Contains(s, k) == \E i \in 1..(Len(s) - Len(k) + 1) : SubSeq(s, i, i + Len(k) - 1) = k

\* path_name.lower().replace(' ', '-').replace('&', '').replace('  ', '-')
Slugify(path_name) ==
    SelectSeq([i \in DOMAIN path_name |->
                  IF path_name[i] = " " THEN "-" ELSE LowerChar(path_name[i])],
              LAMBDA c : c # "&")

\* the dict name_mappings, in its insertion order
name_mappings ==
    << <<<<"g","a","m","e">>, <<"g","a","m","e","-","d","e","v","e","l","o","p","m","e","n","t">>>>,
       <<<<"g","a","m","i","n","g">>, <<"g","a","m","e","-","d","e","v","e","l","o","p","m","e","n","t">>>>,
       <<<<"g","a","m","e","s">>, <<"g","a","m","e","-","d","e","v","e","l","o","p","m","e","n","t">>>>,
       <<<<"a","i">>, <<"a","i","-","m","a","c","h","i","n","e","-","l","e","a","r","n","i","n","g">>>>,
       <<<<"a","r","t","i","f","i","c","i","a","l"," ","i","n","t","e","l","l","i","g","e","n","c","e">>, <<"a","i","-","m","a","c","h","i","n","e","-","l","e","a","r","n","i","n","g">>>>,
       <<<<"m","a","c","h","i","n","e"," ","l","e","a","r","n","i","n","g">>, <<"a","i","-","m","a","c","h","i","n","e","-","l","e","a","r","n","i","n","g">>>>,
       <<<<"w","e","b">>, <<"w","e","b","-","d","e","v","e","l","o","p","m","e","n","t">>>>,
       <<<<"w","e","b","s","i","t","e">>, <<"w","e","b","-","d","e","v","e","l","o","p","m","e","n","t">>>>,
       <<<<"w","e","b","s","i","t","e","s">>, <<"w","e","b","-","d","e","v","e","l","o","p","m","e","n","t">>>>,
       <<<<"r","o","b","o","t">>, <<"r","o","b","o","t","i","c","s">>>>,
       <<<<"r","o","b","o","t","s">>, <<"r","o","b","o","t","i","c","s">>>>,
       <<<<"d","a","t","a">>, <<"d","a","t","a","-","s","c","i","e","n","c","e">>>>,
       <<<<"a","n","a","l","y","t","i","c","s">>, <<"d","a","t","a","-","s","c","i","e","n","c","e">>>>,
       <<<<"m","o","b","i","l","e">>, <<"m","o","b","i","l","e","-","a","p","p","-","d","e","v","e","l","o","p","m","e","n","t">>>>,
       <<<<"a","p","p">>, <<"m","o","b","i","l","e","-","a","p","p","-","d","e","v","e","l","o","p","m","e","n","t">>>>,
       <<<<"a","p","p","s">>, <<"m","o","b","i","l","e","-","a","p","p","-","d","e","v","e","l","o","p","m","e","n","t">>>>,
       <<<<"p","r","o","g","r","a","m","m","i","n","g">>, <<"g","e","n","e","r","a","l","-","p","r","o","g","r","a","m","m","i","n","g">>>>,
       <<<<"c","o","d","i","n","g">>, <<"g","e","n","e","r","a","l","-","p","r","o","g","r","a","m","m","i","n","g">>>> >>

ActivePathByName(name) ==
    scalar_one_or_none({p \in DOMAIN learning_paths :
        learning_paths[p].name = name /\ learning_paths[p].is_active})

ActivePathBySlug(slug) ==
    scalar_one_or_none({p \in DOMAIN learning_paths :
        learning_paths[p].slug = slug /\ learning_paths[p].is_active})

find_learning_path_by_name(path_name) ==
    IF ActivePathByName(path_name) # None THEN ActivePathByName(path_name)
    ELSE IF ActivePathBySlug(Slugify(path_name)) # None THEN ActivePathBySlug(Slugify(path_name))
    ELSE LET hits == {i \in DOMAIN name_mappings : Contains(Lower(path_name), name_mappings[i][1])}
         IN IF hits = {} THEN None
            ELSE ActivePathBySlug(name_mappings[CHOOSE i \in hits : \A j \in hits : i <= j][2])

\* the rows of one student
AssessmentsOf(s) == {a \in DOMAIN student_assessments : student_assessments[a].student_id = s}
PathsOf(s) == {p \in DOMAIN student_learning_paths : student_learning_paths[p].student_id = s}
ProgressOf(s) == {p \in DOMAIN student_module_progress : student_module_progress[p].student_id = s}
AchievementsOf(s) == {a \in DOMAIN student_achievements : student_achievements[a].student_id = s}

\* the StudentLearningPath row of a student for a path
StudentPath(student_id, path_id) ==
    scalar_one_or_none({p \in PathsOf(student_id) : student_learning_paths[p].path_id = path_id})

\* the StudentModuleProgress row of a student for a module
ModuleProgress(student_id, module_id) ==
    scalar_one_or_none({p \in ProgressOf(student_id) :
        student_module_progress[p].module_id = module_id})

\* an assignment that stores nothing
AssignedPaths_mut(student_id, path_id) == student_learning_paths

\* assign_learning_path: the table after the call
AssignedPaths(student_id, path_id) ==
    LET existing_path == StudentPath(student_id, path_id)
    IN IF existing_path # None
       THEN [student_learning_paths EXCEPT ![existing_path].is_active = TRUE]
       ELSE Ext(student_learning_paths, NewId(student_learning_paths),
                [ student_id |-> student_id, path_id |-> path_id, is_active |-> TRUE,
                  progress_percentage |-> 0, completed_at |-> NoTime ])

\* _is_module_locked that never locks
IsModuleLocked_mut(student_id, module_id) == FALSE

\* _is_module_locked
IsModuleLocked(student_id, module_id) ==
    LET module == learning_modules[module_id]
        previous_module == scalar_one_or_none({m \in DOMAIN learning_modules :
            /\ learning_modules[m].path_id = module.path_id
            /\ learning_modules[m].sort_order = module.sort_order - 1
            /\ learning_modules[m].is_active})
    IN IF module.sort_order <= 1 THEN FALSE
       ELSE IF previous_module = None THEN FALSE
       ELSE ~\E p \in ProgressOf(student_id) :
                /\ student_module_progress[p].module_id = previous_module
                /\ student_module_progress[p].status = "completed"

\* why start_module raises ValueError, or "" when it goes ahead
StartModuleError(student_id, module_id) ==
    IF module_id \notin DOMAIN learning_modules THEN "Module not found"
    ELSE IF ~\E p \in PathsOf(student_id) :
                /\ student_learning_paths[p].path_id = learning_modules[module_id].path_id
                /\ student_learning_paths[p].is_active
         THEN "Student does not have access to this module's learning path"
    ELSE IF IsModuleLocked(student_id, module_id)
         THEN "Module is locked. Complete previous modules first."
    ELSE ""

\* start_module: the progress table after the call
StartedProgress(student_id, module_id) ==
    LET existing_progress == ModuleProgress(student_id, module_id)
        student_path == scalar_one_or_none({p \in PathsOf(student_id) :
            /\ student_learning_paths[p].path_id = learning_modules[module_id].path_id
            /\ student_learning_paths[p].is_active})
    IN IF existing_progress # None
       THEN IF student_module_progress[existing_progress].status = "not_started"
            THEN [student_module_progress EXCEPT ![existing_progress].status = "in_progress"]
            ELSE student_module_progress
       ELSE Ext(student_module_progress, NewId(student_module_progress),
                [ student_id |-> student_id, module_id |-> module_id,
                  student_path_id |-> student_path, status |-> "in_progress",
                  progress_percentage |-> 0, completed_at |-> NoTime ])

Max(a, b) == IF a >= b THEN a ELSE b

\* update_module_progress: the progress table after the call
UpdatedProgress(progress, progress_percentage) ==
    LET row == student_module_progress[progress]
        raised == Max(row.progress_percentage, progress_percentage)
    IN [student_module_progress EXCEPT ![progress] =
           IF raised >= 100 /\ row.status # "completed"
           THEN [row EXCEPT !.progress_percentage = raised, !.status = "completed",
                            !.completed_at = now]
           ELSE [row EXCEPT !.progress_percentage = raised]]

\* _update_path_progress that stores nothing
UpdatedPaths_mut(student_id, student_path_id, progress_rows) == student_learning_paths

\* _update_path_progress over the updated progress table: the paths table after
UpdatedPaths(student_id, student_path_id, progress_rows) ==
    LET total_modules == Cardinality({m \in DOMAIN learning_modules :
            /\ learning_modules[m].path_id = student_learning_paths[student_path_id].path_id
            /\ learning_modules[m].is_active})
        completed_modules == Cardinality({p \in DOMAIN progress_rows :
            /\ progress_rows[p].student_id = student_id
            /\ progress_rows[p].student_path_id = student_path_id
            /\ progress_rows[p].status = "completed"})
        progress_percentage == IF total_modules > 0
                               THEN (completed_modules * 100) \div total_modules ELSE 0
    IN [student_learning_paths EXCEPT ![student_path_id] =
           [@ EXCEPT !.progress_percentage = progress_percentage,
                     !.completed_at = IF progress_percentage >= 100 THEN now ELSE @]]

\* _check_achievements: the names it hands to _award_achievement_if_new
EarnedAchievements(student_id, progress_rows, path_rows) ==
    LET completed == {p \in DOMAIN progress_rows :
            progress_rows[p].student_id = student_id /\ progress_rows[p].status = "completed"}
        today_start == (now \div 86400) * 86400
        today_completed == {p \in completed : progress_rows[p].completed_at >= today_start}
        completed_paths == {p \in DOMAIN path_rows :
            path_rows[p].student_id = student_id /\ path_rows[p].completed_at # NoTime}
    IN (IF Cardinality(completed) >= 1 THEN {"First Steps"} ELSE {})
       \cup (IF Cardinality(today_completed) >= 3 THEN {"Quick Learner"} ELSE {})
       \cup (IF Cardinality(completed_paths) >= 1 THEN {"Path Completer"} ELSE {})

\* _award_achievement_if_new: the achievements table after the call
award_achievement_if_new(table, student_id, achievement_name) ==
    IF achievement_name \notin achievement_types THEN table
    ELSE IF \E a \in DOMAIN table : /\ table[a].student_id = student_id
                                    /\ table[a].achievement_type = achievement_name
    THEN table
    ELSE Ext(table, NewId(table),
             [ student_id |-> student_id, achievement_type |-> achievement_name ])

\* the rows a session adds for the names _check_achievements hands over, in
\* its order: First Steps, Quick Learner, Path Completer
AwardedAchievements(student_id, names) ==
    LET Award(table, name) ==
            IF name \in names THEN award_achievement_if_new(table, student_id, name)
            ELSE table
    IN Award(Award(Award(student_achievements, "First Steps"), "Quick Learner"),
             "Path Completer")

\* update_module_progress of the service, once the progress row is found:
\* progress, path progress, achievements and the tracked activity
ServiceUpdateModuleProgress(student_id, progress, progress_percentage, tracked) ==
    LET row == student_module_progress[progress]
        progress_rows == UpdatedProgress(progress, progress_percentage)
        completes == progress_rows[progress].status = "completed" /\ row.status # "completed"
        path_rows == IF completes
                     THEN UpdatedPaths(student_id, row.student_path_id, progress_rows)
                     ELSE student_learning_paths
        awarded == IF completes
                   THEN AwardedAchievements(student_id,
                            EarnedAchievements(student_id, progress_rows, path_rows))
                   ELSE student_achievements
    IN /\ student_module_progress' = progress_rows
       /\ student_learning_paths' = path_rows
       /\ student_achievements' = awarded
       /\ user_actions' = user_actions
            \cup {<<student_id, t>> : t \in tracked}
            \cup (IF awarded # student_achievements
                  THEN {<<student_id, "achievement_earned">>} ELSE {})

(***************************************************************************)
(* The endpoints that take a student_id                                    *)
(***************************************************************************)
\* the three decorators have the same body
rate_limit_normal(func, requests, window, client_ip, arg, Handler) ==
    RateLimitWrapper(func, requests, window, client_ip, arg, Handler)

rate_limit_relaxed(func, requests, window, client_ip, arg, Handler) ==
    RateLimitWrapper(func, requests, window, client_ip, arg, Handler)

\* "Verify student belongs to current user", without the user_id condition
OwnedStudent_mut(current_user, student_id) ==
    IF /\ student_id \in DOMAIN students
       /\ students[student_id].is_active
    THEN student_id ELSE None

\* "Verify student belongs to current user": select(Student).where(
\* Student.id == student_id, Student.user_id == current_user.id,
\* Student.is_active == True)
OwnedStudent(current_user, student_id) ==
    IF /\ student_id \in DOMAIN students
       /\ students[student_id].user_id = current_user
       /\ students[student_id].is_active
    THEN student_id ELSE None

\* a response that carries data
Reply(func, arg, status, user, student, data) ==
    resp' = [Response(func, arg, status, user, student, "") EXCEPT !.data = data]

\* a response that raises HTTPException
Raise(func, arg, status, user, detail) ==
    /\ resp' = Response(func, arg, status, user, None, detail)
    /\ UNCHANGED <<accountVars, now, passwordVars, sessionVars, middlewareVars, learningVars>>

\* Depends(get_current_user) raised 401: the endpoint and its decorator do not run
Unauthorized(func, arg) ==
    /\ Raise(func, arg, 401, None, "Could not validate credentials")
    /\ UNCHANGED limiterVars

\* a handler that only reads
ReadOnly == UNCHANGED <<accountVars, now, passwordVars, sessionVars, middlewareVars, learningVars>>

(***************************************************************************)
(* routers/students.py                                                     *)
(***************************************************************************)
\* the active modules of a path
PathModules(path_id) ==
    {m \in DOMAIN learning_modules :
        learning_modules[m].path_id = path_id /\ learning_modules[m].is_active}

\* "Determine if module is locked" in get_student_dashboard
DashboardLocked(student, path_id, module) ==
    IF \E p \in ProgressOf(student) : student_module_progress[p].module_id = module THEN FALSE
    ELSE IF learning_modules[module].sort_order = 1 THEN FALSE
    ELSE ~\E p \in ProgressOf(student) :
            LET m == student_module_progress[p].module_id
            IN /\ learning_modules[m].path_id = path_id
               /\ learning_modules[m].sort_order = learning_modules[module].sort_order - 1
               /\ student_module_progress[p].status = "completed"

\* the student's active StudentLearningPath rows, which the dashboard hands
\* to scalar_one_or_none()
ActivePathsOf(student) == {p \in PathsOf(student) : student_learning_paths[p].is_active}

\* GET /dashboard/{student_id}
get_student_dashboard(client_ip, token, student_id) ==
    LET func == "get_student_dashboard"
        arg == <<token, student_id, client_ip>>
        current_user == get_current_user(token)
        student == OwnedStudent(current_user, student_id)
        student_path == scalar_one_or_none(ActivePathsOf(student))
        path_id == student_learning_paths[student_path].path_id
    IN IF current_user = None THEN Unauthorized(func, arg)
       ELSE rate_limit_normal(func, 30, 60, client_ip, arg,
                IF student = None THEN Raise(func, arg, 404, current_user, "Student not found")
                ELSE IF MultipleResultsFound(ActivePathsOf(student))
                THEN Raise(func, arg, 500, current_user, "Internal Server Error")
                ELSE /\ Reply(func, arg, 200, current_user, student,
                              [ student |-> students[student],
                                current_path |-> IF student_path = None THEN <<>>
                                                 ELSE student_learning_paths[student_path],
                                module_progress |->
                                    IF student_path = None THEN <<>>
                                    ELSE [m \in PathModules(path_id) |->
                                            [ progress |-> {student_module_progress[p] :
                                                  p \in {q \in ProgressOf(student) :
                                                      student_module_progress[q].module_id = m}},
                                              is_locked |-> DashboardLocked(student, path_id, m) ]],
                                achievements |-> {student_achievements[a] : a \in AchievementsOf(student)} ])
                     /\ ReadOnly)

\* a field of UpdateStudentProfile the request leaves out
Unset == -1

\* PUT /profile/{student_id}
update_student_profile(client_ip, token, student_id, age) ==
    LET func == "update_student_profile"
        arg == <<token, student_id, age, client_ip>>
        current_user == get_current_user(token)
        student == OwnedStudent(current_user, student_id)
        updated == IF age = Unset THEN students
                   ELSE [students EXCEPT ![student].age = age]
    IN IF current_user = None THEN Unauthorized(func, arg)
       ELSE rate_limit_normal(func, 10, 60, client_ip, arg,
                IF student = None THEN Raise(func, arg, 404, current_user, "Student not found")
                ELSE /\ students' = updated
                     /\ Reply(func, arg, 200, current_user, student, updated[student])
                     /\ UNCHANGED <<users, tokens, fifth_at, last_fail, now, passwordVars, sessionVars,
                                    middlewareVars, learningVars>>)

\* GET /achievements/{student_id}
get_student_achievements(client_ip, token, student_id) ==
    LET func == "get_student_achievements"
        arg == <<token, student_id, client_ip>>
        current_user == get_current_user(token)
        student == OwnedStudent(current_user, student_id)
    IN IF current_user = None THEN Unauthorized(func, arg)
       ELSE rate_limit_relaxed(func, 30, 60, client_ip, arg,
                IF student = None THEN Raise(func, arg, 404, current_user, "Student not found")
                ELSE /\ Reply(func, arg, 200, current_user, student,
                              {student_achievements[a] : a \in AchievementsOf(student)})
                     /\ ReadOnly)

\* POST /activity/{student_id}
track_student_activity(client_ip, token, student_id, activity_type) ==
    LET func == "track_student_activity"
        arg == <<token, student_id, activity_type, client_ip>>
        current_user == get_current_user(token)
        student == OwnedStudent(current_user, student_id)
    IN IF current_user = None THEN Unauthorized(func, arg)
       ELSE rate_limit_normal(func, 100, 60, client_ip, arg,
                IF student = None THEN Raise(func, arg, 404, current_user, "Student not found")
                ELSE /\ user_actions' = user_actions \cup {<<student, activity_type>>}
                     /\ Reply(func, arg, 200, current_user, student, <<>>)
                     /\ UNCHANGED <<accountVars, now, passwordVars, sessionVars, middlewareVars,
                                    student_assessments, student_learning_paths,
                                    student_module_progress, student_achievements,
                                    content_engagement>>)

(***************************************************************************)
(* routers/assessments.py                                                  *)
(***************************************************************************)
PATHWAY_FINDER == "pathway_finder"

\* POST /start
start_assessment(client_ip, token, student_id) ==
    LET func == "start_assessment"
        arg == <<token, student_id, client_ip>>
        current_user == get_current_user(token)
        student == OwnedStudent(current_user, student_id)
        completed_rows == {a \in AssessmentsOf(student) : student_assessments[a].is_completed}
        incomplete_rows == {a \in AssessmentsOf(student) : ~student_assessments[a].is_completed}
        existing_assessment == scalar_one_or_none(completed_rows)
        incomplete_assessment == scalar_one_or_none(incomplete_rows)
        new_assessment == [ student_id |-> student, assessment_type |-> PATHWAY_FINDER,
                            is_completed |-> FALSE, recommended_path_id |-> None,
                            assessment_score |-> None ]
    IN IF current_user = None THEN Unauthorized(func, arg)
       ELSE rate_limit_strict(func, 5, 300, client_ip, arg,
                IF student = None THEN Raise(func, arg, 404, current_user, "Student not found")
                ELSE IF MultipleResultsFound(completed_rows)
                THEN Raise(func, arg, 500, current_user, "Internal Server Error")
                ELSE IF existing_assessment # None THEN
                    /\ Reply(func, arg, 200, current_user, student, student_assessments[existing_assessment])
                    /\ ReadOnly
                ELSE IF MultipleResultsFound(incomplete_rows)
                THEN Raise(func, arg, 500, current_user, "Internal Server Error")
                ELSE IF incomplete_assessment # None THEN
                    /\ Reply(func, arg, 200, current_user, student, student_assessments[incomplete_assessment])
                    /\ ReadOnly
                ELSE
                    /\ student_assessments' = Ext(student_assessments, NewId(student_assessments),
                                                  new_assessment)
                    /\ Reply(func, arg, 200, current_user, student, new_assessment)
                    /\ UNCHANGED <<accountVars, now, passwordVars, sessionVars, middlewareVars,
                                   student_learning_paths, student_module_progress,
                                   student_achievements, user_actions, content_engagement>>)

\* POST /complete
complete_assessment(client_ip, token, student_id, assessment_id, recommended_path_name, assessment_score) ==
    LET func == "complete_assessment"
        arg == <<token, student_id, assessment_id, recommended_path_name, assessment_score,
                 client_ip>>
        current_user == get_current_user(token)
        student == OwnedStudent(current_user, student_id)
        assessment == scalar_one_or_none({a \in AssessmentsOf(student) : a = assessment_id})
        found == find_learning_path_by_name(recommended_path_name)
        recommended_path == IF found # None THEN found
                            ELSE scalar_one_or_none({p \in DOMAIN learning_paths :
                                     learning_paths[p].slug = learning_paths[GENERAL_PATH].slug})
        completed == [student_assessments[assessment] EXCEPT
                         !.is_completed = TRUE,
                         !.recommended_path_id = recommended_path,
                         !.assessment_score = assessment_score]
    IN IF current_user = None THEN Unauthorized(func, arg)
       ELSE rate_limit_normal(func, 10, 300, client_ip, arg,
                IF student = None THEN Raise(func, arg, 404, current_user, "Student not found")
                ELSE IF assessment = None THEN Raise(func, arg, 404, current_user, "Assessment not found")
                ELSE IF student_assessments[assessment].is_completed THEN
                    /\ Reply(func, arg, 200, current_user, student, student_assessments[assessment])
                    /\ ReadOnly
                ELSE
                    /\ student_assessments' = [student_assessments EXCEPT ![assessment] = completed]
                    /\ student_learning_paths' =
                          IF recommended_path # None THEN AssignedPaths(student, recommended_path)
                          ELSE student_learning_paths
                    /\ Reply(func, arg, 200, current_user, student, completed)
                    /\ UNCHANGED <<accountVars, now, passwordVars, sessionVars, middlewareVars,
                                   student_module_progress, student_achievements, user_actions,
                                   content_engagement>>)

\* the completed assessments of a student
CompletedAssessments(student) ==
    {a \in AssessmentsOf(student) : student_assessments[a].is_completed}

\* GET /results/{student_id}
get_assessment_results(client_ip, token, student_id) ==
    LET func == "get_assessment_results"
        arg == <<token, student_id, client_ip>>
        current_user == get_current_user(token)
        student == OwnedStudent(current_user, student_id)
    IN IF current_user = None THEN Unauthorized(func, arg)
       ELSE rate_limit_normal(func, 20, 60, client_ip, arg,
                IF student = None THEN Raise(func, arg, 404, current_user, "Student not found")
                ELSE /\ Reply(func, arg, 200, current_user, student,
                              {student_assessments[a] : a \in CompletedAssessments(student)})
                     /\ ReadOnly)

\* the match score of one path: 70, or the latest completed assessment's score
\* for the path it recommended, capped at 100 (the boost for matching
\* interests is left out: interests are not stored in the model)
MatchScore(student, path) ==
    LET latest_assessment == scalar_one_or_none(CompletedAssessments(student))
    IN IF latest_assessment = None THEN 70
       ELSE IF student_assessments[latest_assessment].recommended_path_id # path THEN 70
       ELSE IF student_assessments[latest_assessment].assessment_score > 100 THEN 100
       ELSE student_assessments[latest_assessment].assessment_score

\* GET /recommendations/{student_id}
get_path_recommendations(client_ip, token, student_id) ==
    LET func == "get_path_recommendations"
        arg == <<token, student_id, client_ip>>
        current_user == get_current_user(token)
        student == OwnedStudent(current_user, student_id)
    IN IF current_user = None THEN Unauthorized(func, arg)
       ELSE rate_limit_normal(func, 10, 60, client_ip, arg,
                IF student = None THEN Raise(func, arg, 404, current_user, "Student not found")
                ELSE /\ Reply(func, arg, 200, current_user, student,
                              [p \in {q \in DOMAIN learning_paths : learning_paths[q].is_active} |->
                                  MatchScore(student, p)])
                     /\ ReadOnly)

\* POST /retake/{student_id}
retake_assessment(client_ip, token, student_id) ==
    LET func == "retake_assessment"
        arg == <<token, student_id, client_ip>>
        current_user == get_current_user(token)
        student == OwnedStudent(current_user, student_id)
    IN IF current_user = None THEN Unauthorized(func, arg)
       ELSE rate_limit_strict(func, 2, 3600, client_ip, arg,
                IF student = None THEN Raise(func, arg, 404, current_user, "Student not found")
                ELSE /\ student_assessments' =
                          [a \in DOMAIN student_assessments |->
                              IF a \in CompletedAssessments(student)
                              THEN [student_assessments[a] EXCEPT !.is_completed = FALSE]
                              ELSE student_assessments[a]]
                     /\ Reply(func, arg, 200, current_user, student, <<>>)
                     /\ UNCHANGED <<accountVars, now, passwordVars, sessionVars, middlewareVars,
                                    student_learning_paths, student_module_progress,
                                    student_achievements, user_actions, content_engagement>>)

\* GET /analytics/{student_id} of the assessment router
get_assessment_analytics(client_ip, token, student_id) ==
    LET func == "get_assessment_analytics"
        arg == <<token, student_id, client_ip>>
        current_user == get_current_user(token)
        student == OwnedStudent(current_user, student_id)
    IN IF current_user = None THEN Unauthorized(func, arg)
       ELSE rate_limit_normal(func, 10, 60, client_ip, arg,
                IF student = None THEN Raise(func, arg, 404, current_user, "Student not found")
                ELSE /\ Reply(func, arg, 200, current_user, student,
                              [ total_assessments |-> Cardinality(CompletedAssessments(student)) ])
                     /\ ReadOnly)

(***************************************************************************)
(* routers/learning.py                                                     *)
(***************************************************************************)
\* GET /paths/{path_id}?student_id=
\* "Determine if module is locked" in get_learning_path_detail: modules is the
\* list of the path's active modules ordered by sort_order, i the module's index
PathDetailLocked(student, path_id, module) ==
    LET before == {m \in PathModules(path_id) :
            learning_modules[m].sort_order < learning_modules[module].sort_order}
        prev_module == CHOOSE m \in before :
            \A x \in before : learning_modules[x].sort_order <= learning_modules[m].sort_order
    IN IF \E p \in ProgressOf(student) : student_module_progress[p].module_id = module THEN FALSE
       ELSE IF before = {} THEN FALSE
       ELSE ~\E p \in ProgressOf(student) :
               /\ student_module_progress[p].module_id = prev_module
               /\ student_module_progress[p].status = "completed"

get_learning_path_detail(client_ip, token, student_id, path_id) ==
    LET func == "get_learning_path_detail"
        arg == <<token, student_id, path_id, client_ip>>
        current_user == get_current_user(token)
        student == OwnedStudent(current_user, student_id)
    IN IF current_user = None THEN Unauthorized(func, arg)
       ELSE rate_limit_normal(func, 30, 60, client_ip, arg,
                IF student = None THEN Raise(func, arg, 404, current_user, "Student not found")
                ELSE IF ~(path_id \in DOMAIN learning_paths /\ learning_paths[path_id].is_active)
                THEN Raise(func, arg, 404, current_user, "Learning path not found")
                ELSE /\ Reply(func, arg, 200, current_user, student,
                              [ modules |-> [m \in PathModules(path_id) |->
                                    [ is_locked |-> PathDetailLocked(student, path_id, m) ]],
                                student_progress |-> {student_module_progress[p] :
                                    p \in {q \in ProgressOf(student) :
                                        learning_modules[student_module_progress[q].module_id].path_id = path_id}} ])
                     /\ ReadOnly)

\* POST /modules/{module_id}/start/{student_id}
start_module(client_ip, token, student_id, module_id) ==
    LET func == "start_module"
        arg == <<token, student_id, module_id, client_ip>>
        current_user == get_current_user(token)
        student == OwnedStudent(current_user, student_id)
        progress_rows == StartedProgress(student, module_id)
    IN IF current_user = None THEN Unauthorized(func, arg)
       ELSE rate_limit_normal(func, 20, 60, client_ip, arg,
                IF student = None THEN Raise(func, arg, 404, current_user, "Student not found")
                ELSE IF StartModuleError(student, module_id) # ""
                THEN Raise(func, arg, 400, current_user, StartModuleError(student, module_id))
                ELSE /\ student_module_progress' = progress_rows
                     /\ user_actions' = user_actions \cup {<<student, "module_start">>}
                     /\ Reply(func, arg, 200, current_user, student,
                              {progress_rows[p] : p \in {q \in DOMAIN progress_rows :
                                  progress_rows[q].student_id = student
                                  /\ progress_rows[q].module_id = module_id}})
                     /\ UNCHANGED <<accountVars, now, passwordVars, sessionVars, middlewareVars,
                                    student_assessments, student_learning_paths,
                                    student_achievements, content_engagement>>)

\* PUT /modules/{module_id}/progress/{student_id}
update_module_progress(client_ip, token, student_id, module_id, progress_percentage) ==
    LET func == "update_module_progress"
        arg == <<token, student_id, module_id, progress_percentage, client_ip>>
        current_user == get_current_user(token)
        student == OwnedStudent(current_user, student_id)
        progress == ModuleProgress(student, module_id)
    IN IF current_user = None THEN Unauthorized(func, arg)
       ELSE rate_limit_normal(func, 100, 60, client_ip, arg,
                IF student = None THEN Raise(func, arg, 404, current_user, "Student not found")
                ELSE IF progress = None
                THEN Raise(func, arg, 400, current_user,
                           "Module progress not found. Start the module first.")
                ELSE /\ ServiceUpdateModuleProgress(student, progress, progress_percentage,
                                                    {"module_progress"})
                     /\ Reply(func, arg, 200, current_user, student,
                              UpdatedProgress(progress, progress_percentage)[progress])
                     /\ UNCHANGED <<accountVars, now, passwordVars, sessionVars, middlewareVars,
                                    student_assessments, content_engagement>>)

\* POST /modules/{module_id}/complete/{student_id}
complete_module(client_ip, token, student_id, module_id) ==
    LET func == "complete_module"
        arg == <<token, student_id, module_id, client_ip>>
        current_user == get_current_user(token)
        student == OwnedStudent(current_user, student_id)
        progress == ModuleProgress(student, module_id)
    IN IF current_user = None THEN Unauthorized(func, arg)
       ELSE rate_limit_normal(func, 20, 60, client_ip, arg,
                IF student = None THEN Raise(func, arg, 404, current_user, "Student not found")
                ELSE IF progress = None
                THEN Raise(func, arg, 400, current_user,
                           "Module progress not found. Start the module first.")
                ELSE /\ ServiceUpdateModuleProgress(student, progress, 100,
                                                    {"module_progress", "module_complete"})
                     /\ content_engagement' = content_engagement \cup {<<student, module_id>>}
                     /\ Reply(func, arg, 200, current_user, student,
                              UpdatedProgress(progress, 100)[progress])
                     /\ UNCHANGED <<accountVars, now, passwordVars, sessionVars, middlewareVars,
                                    student_assessments>>)

\* GET /progress/{student_id}
get_student_progress(client_ip, token, student_id) ==
    LET func == "get_student_progress"
        arg == <<token, student_id, client_ip>>
        current_user == get_current_user(token)
        student == OwnedStudent(current_user, student_id)
    IN IF current_user = None THEN Unauthorized(func, arg)
       ELSE rate_limit_normal(func, 30, 60, client_ip, arg,
                IF student = None THEN Raise(func, arg, 404, current_user, "Student not found")
                ELSE /\ Reply(func, arg, 200, current_user, student,
                              {student_module_progress[p] : p \in ProgressOf(student)})
                     /\ ReadOnly)

\* GET /modules/{module_id}?student_id=
get_module_detail(client_ip, token, student_id, module_id) ==
    LET func == "get_module_detail"
        arg == <<token, student_id, module_id, client_ip>>
        current_user == get_current_user(token)
        student == OwnedStudent(current_user, student_id)
    IN IF current_user = None THEN Unauthorized(func, arg)
       ELSE rate_limit_relaxed(func, 50, 60, client_ip, arg,
                IF student = None THEN Raise(func, arg, 404, current_user, "Student not found")
                ELSE IF ~(module_id \in DOMAIN learning_modules /\ learning_modules[module_id].is_active)
                THEN Raise(func, arg, 404, current_user, "Module not found")
                ELSE /\ content_engagement' = content_engagement \cup {<<student, module_id>>}
                     /\ Reply(func, arg, 200, current_user, student,
                              [ is_locked |-> IsModuleLocked(student, module_id) ])
                     /\ UNCHANGED <<accountVars, now, passwordVars, sessionVars, middlewareVars,
                                    student_assessments, student_learning_paths,
                                    student_module_progress, student_achievements, user_actions>>)

\* POST /assign-path/{student_id}/{path_id}
assign_learning_path(client_ip, token, student_id, path_id) ==
    LET func == "assign_learning_path"
        arg == <<token, student_id, path_id, client_ip>>
        current_user == get_current_user(token)
        student == OwnedStudent(current_user, student_id)
    IN IF current_user = None THEN Unauthorized(func, arg)
       ELSE rate_limit_normal(func, 5, 300, client_ip, arg,
                IF student = None THEN Raise(func, arg, 404, current_user, "Student not found")
                ELSE IF ~(path_id \in DOMAIN learning_paths /\ learning_paths[path_id].is_active)
                THEN Raise(func, arg, 404, current_user, "Learning path not found")
                ELSE /\ student_learning_paths' = AssignedPaths(student, path_id)
                     /\ Reply(func, arg, 200, current_user, student, path_id)
                     /\ UNCHANGED <<accountVars, now, passwordVars, sessionVars, middlewareVars,
                                    student_assessments, student_module_progress,
                                    student_achievements, user_actions, content_engagement>>)

\* GET /analytics/{student_id} of the learning router
get_learning_analytics(client_ip, token, student_id) ==
    LET func == "get_learning_analytics"
        arg == <<token, student_id, client_ip>>
        current_user == get_current_user(token)
        student == OwnedStudent(current_user, student_id)
    IN IF current_user = None THEN Unauthorized(func, arg)
       ELSE rate_limit_normal(func, 10, 60, client_ip, arg,
                IF student = None THEN Raise(func, arg, 404, current_user, "Student not found")
                ELSE /\ Reply(func, arg, 200, current_user, student,
                              {a \in user_actions : a[1] = student})
                     /\ ReadOnly)

(***************************************************************************)
(* Requests that overlap: each request has its own database session        *)
(* (get_db), other sessions see its writes only after its commit           *)
(***************************************************************************)
\* the sessions in flight without the i-th
Closed(i) == SubSeq(pending, 1, i - 1) \o SubSeq(pending, i + 1, Len(pending))

\* start_assessment up to db.add(new_assessment): the student is found and
\* neither select returned a row
start_assessment_begin(client_ip, token, student_id) ==
    LET func == "start_assessment"
        arg == <<token, student_id, client_ip>>
        current_user == get_current_user(token)
        student == OwnedStudent(current_user, student_id)
    IN /\ current_user # None
       /\ rate_limit_strict(func, 5, 300, client_ip, arg,
              /\ student # None
              /\ AssessmentsOf(student) = {}
              /\ Len(pending) < MaxPending
              /\ pending' = Append(pending, [ op |-> func, arg |-> arg, user |-> current_user,
                                              student |-> student ])
              /\ UNCHANGED <<accountVars, now, resp, passwordVars, middlewareVars, learningVars>>)

\* start_assessment from db.flush() to its response: the row is inserted and
\* committed
start_assessment_commit(i) ==
    LET session == pending[i]
        new_assessment == [ student_id |-> session.student, assessment_type |-> PATHWAY_FINDER,
                            is_completed |-> FALSE, recommended_path_id |-> None,
                            assessment_score |-> None ]
    IN /\ session.op = "start_assessment"
       /\ student_assessments' = Ext(student_assessments, NewId(student_assessments),
                                     new_assessment)
       /\ pending' = Closed(i)
       /\ Reply(session.op, session.arg, 200, session.user, session.student, new_assessment)
       /\ UNCHANGED <<accountVars, now, passwordVars, middlewareVars, limiterVars,
                      student_learning_paths, student_module_progress,
                      student_achievements, user_actions, content_engagement>>

\* db.add(new_achievement) for each name the session found missing
InsertedAchievements(student_id, names) ==
    LET Insert(table, name) ==
            IF name \in names
            THEN Ext(table, NewId(table),
                     [ student_id |-> student_id, achievement_type |-> name ])
            ELSE table
    IN Insert(Insert(Insert(student_achievements, "First Steps"), "Quick Learner"),
              "Path Completer")

\* complete_module, for a module not completed yet, up to db.commit() in
\* update_module_progress: the progress and path rows are updated in the
\* session (their row locks are held until the commit, so no other session
\* in flight holds them) and _check_achievements has looked for the
\* student's achievements among the committed rows
complete_module_begin(client_ip, token, student_id, module_id) ==
    LET func == "complete_module"
        arg == <<token, student_id, module_id, client_ip>>
        current_user == get_current_user(token)
        student == OwnedStudent(current_user, student_id)
        progress == ModuleProgress(student, module_id)
        row == student_module_progress[progress]
        progress_rows == UpdatedProgress(progress, 100)
        path_rows == UpdatedPaths(student, row.student_path_id, progress_rows)
        names == {n \in EarnedAchievements(student, progress_rows, path_rows) :
                     award_achievement_if_new(student_achievements, student, n)
                         # student_achievements}
    IN /\ current_user # None
       /\ rate_limit_normal(func, 20, 60, client_ip, arg,
              /\ student # None
              /\ progress # None
              /\ row.status # "completed"
              /\ Len(pending) < MaxPending
              /\ \A i \in DOMAIN pending :
                    pending[i].op = func =>
                        /\ pending[i].progress # progress
                        /\ pending[i].student_path_id # row.student_path_id
              /\ pending' = Append(pending, [ op |-> func, arg |-> arg, user |-> current_user,
                                              student |-> student, progress |-> progress,
                                              student_path_id |-> row.student_path_id,
                                              names |-> names ])
              /\ UNCHANGED <<accountVars, now, resp, passwordVars, middlewareVars, learningVars>>)

\* complete_module from db.commit() to its response
complete_module_commit(i) ==
    LET session == pending[i]
        progress_rows == UpdatedProgress(session.progress, 100)
    IN /\ session.op = "complete_module"
       /\ student_module_progress' = progress_rows
       /\ student_learning_paths' =
             UpdatedPaths(session.student, session.student_path_id, progress_rows)
       /\ student_achievements' = InsertedAchievements(session.student, session.names)
       /\ user_actions' = user_actions
             \cup {<<session.student, t>> : t \in {"module_progress", "module_complete"}}
             \cup (IF session.names # {} THEN {<<session.student, "achievement_earned">>} ELSE {})
       /\ content_engagement' = content_engagement \cup {<<session.student, session.arg[3]>>}
       /\ pending' = Closed(i)
       /\ Reply(session.op, session.arg, 200, session.user, session.student,
                progress_rows[session.progress])
       /\ UNCHANGED <<accountVars, now, passwordVars, middlewareVars, limiterVars,
                      student_assessments>>

\* update_module_progress, for a percentage that does not complete the
\* module, up to db.commit(): the session has selected the progress row
\* (a plain SELECT, which waits for no lock) and has set
\* progress.progress_percentage = max(old, new) on its own copy of the row
update_module_progress_begin(client_ip, token, student_id, module_id, progress_percentage) ==
    LET func == "update_module_progress"
        arg == <<token, student_id, module_id, progress_percentage, client_ip>>
        current_user == get_current_user(token)
        student == OwnedStudent(current_user, student_id)
        progress == ModuleProgress(student, module_id)
        row == student_module_progress[progress]
        raised == Max(row.progress_percentage, progress_percentage)
    IN /\ current_user # None
       /\ rate_limit_normal(func, 100, 60, client_ip, arg,
              /\ student # None
              /\ progress # None
              /\ raised < 100
              /\ Len(pending) < MaxPending
              /\ pending' = Append(pending, [ op |-> func, arg |-> arg, user |-> current_user,
                                              student |-> student, progress |-> progress,
                                              row |-> row, raised |-> raised ])
              /\ UNCHANGED <<accountVars, now, resp, passwordVars, middlewareVars, learningVars>>)

\* update_module_progress from db.commit() to its response: the flush sends
\* UPDATE ... SET progress_percentage = <the value computed from the row as
\* it was read> when that value differs from the one read, after any session
\* that holds the row's lock has committed
update_module_progress_commit(i) ==
    LET session == pending[i]
    IN /\ session.op = "update_module_progress"
       /\ \A j \in DOMAIN pending :
             pending[j].op = "complete_module" => pending[j].progress # session.progress
       /\ student_module_progress' =
             IF session.raised # session.row.progress_percentage
             THEN [student_module_progress EXCEPT
                      ![session.progress].progress_percentage = session.raised]
             ELSE student_module_progress
       /\ user_actions' = user_actions \cup {<<session.student, "module_progress">>}
       /\ pending' = Closed(i)
       /\ Reply(session.op, session.arg, 200, session.user, session.student,
                [session.row EXCEPT !.progress_percentage = session.raised])
       /\ UNCHANGED <<accountVars, now, passwordVars, middlewareVars, limiterVars,
                      student_assessments, student_learning_paths, student_achievements,
                      content_engagement>>

(***************************************************************************)
(* routers/admin.py: the other endpoints                                   *)
(***************************************************************************)
\* Depends(verify_admin_user) in front of an endpoint's body
AdminOnly(func, arg, token, Body) ==
    LET current_user == get_current_user(token)
    IN /\ UNCHANGED limiterVars
       /\ IF current_user = None
          THEN Raise(func, arg, 401, None, "Could not validate credentials")
          ELSE IF ~verify_admin_user(current_user)
          THEN Raise(func, arg, 403, current_user, "Admin privileges required")
          ELSE Body

\* analytics.get_system_health_metrics: the error counts
get_system_health_metrics ==
    [ errors_last_24h |-> Cardinality(DOMAIN error_logs),
      unresolved |-> Cardinality({e \in DOMAIN error_logs : ~error_logs[e].resolved}) ]

\* GET /dashboard
get_admin_dashboard(token) ==
    LET func == "get_admin_dashboard"
        admin_user == get_current_user(token)
        Body ==
            /\ Reply(func, <<token>>, 200, admin_user, None,
                     [ total_users |-> Cardinality({u \in DOMAIN users : users[u].is_active}),
                       total_students |-> Cardinality({s \in DOMAIN students : students[s].is_active}),
                       completed_modules |-> Cardinality({p \in DOMAIN student_module_progress :
                           student_module_progress[p].status = "completed"}),
                       errors_24h |-> get_system_health_metrics.errors_last_24h ])
            /\ ReadOnly
    IN AdminOnly(func, <<token>>, token, Body)

\* GET /users
get_all_users(token) ==
    LET func == "get_all_users"
        admin_user == get_current_user(token)
        Body ==
            /\ Reply(func, <<token>>, 200, admin_user, None,
                     [u \in {x \in DOMAIN users : users[x].is_active} |->
                         [ email |-> users[u].email, is_admin |-> users[u].is_admin,
                           total_students |-> Cardinality({s \in DOMAIN students :
                               students[s].user_id = u /\ students[s].is_active}) ]])
            /\ ReadOnly
    IN AdminOnly(func, <<token>>, token, Body)

\* GET /students
get_all_students(token) ==
    LET func == "get_all_students"
        admin_user == get_current_user(token)
        Body ==
            /\ Reply(func, <<token>>, 200, admin_user, None,
                     [st \in {x \in DOMAIN students : students[x].is_active} |->
                         [ age |-> students[st].age,
                           user_email |-> users[students[st].user_id].email ]])
            /\ ReadOnly
    IN AdminOnly(func, <<token>>, token, Body)

\* GET /errors
get_system_errors(token) ==
    LET func == "get_system_errors"
        admin_user == get_current_user(token)
        Body ==
            /\ Reply(func, <<token>>, 200, admin_user, None, error_logs)
            /\ ReadOnly
    IN AdminOnly(func, <<token>>, token, Body)

\* PATCH /errors/{error_id}/resolve
resolve_error(token, error_id) ==
    LET func == "resolve_error"
        arg == <<token, error_id>>
        admin_user == get_current_user(token)
        Body ==
            IF error_id \notin DOMAIN error_logs
            THEN Raise(func, arg, 404, admin_user, "Error not found")
            ELSE /\ error_logs' = [error_logs EXCEPT ![error_id].resolved = TRUE]
                 /\ resp' = Response(func, arg, 200, admin_user, None, "Error marked as resolved")
                 /\ UNCHANGED <<accountVars, now, passwordVars, sessionVars, learningVars,
                                mw_requests, mw_log, security_headers>>
    IN AdminOnly(func, arg, token, Body)

\* GET /analytics/summary
get_analytics_summary(token) ==
    LET func == "get_analytics_summary"
        admin_user == get_current_user(token)
        Body ==
            /\ Reply(func, <<token>>, 200, admin_user, None,
                     [ actions |-> Cardinality(user_actions),
                       total_progress_records |-> Cardinality(DOMAIN student_module_progress),
                       active_students |-> Cardinality({student_module_progress[p].student_id :
                           p \in DOMAIN student_module_progress}) ])
            /\ ReadOnly
    IN AdminOnly(func, <<token>>, token, Body)

\* GET /system/health
get_system_health(token) ==
    LET func == "get_system_health"
        admin_user == get_current_user(token)
        Body ==
            /\ Reply(func, <<token>>, 200, admin_user, None, get_system_health_metrics)
            /\ ReadOnly
    IN AdminOnly(func, <<token>>, token, Body)

\* POST /users/{user_id}/toggle-admin
\* (the audit rows of analytics.track_user_action are not part of the state)
toggle_user_admin_status(token, user_id) ==
    LET func == "toggle_user_admin_status"
        arg == <<token, user_id>>
        admin_user == get_current_user(token)
        Body ==
            IF user_id \notin DOMAIN users
            THEN Raise(func, arg, 404, admin_user, "User not found")
            ELSE IF user_id = admin_user
            THEN Raise(func, arg, 400, admin_user, "Cannot modify your own admin status")
            ELSE /\ users' = [users EXCEPT ![user_id].is_admin = ~users[user_id].is_admin]
                 /\ Reply(func, arg, 200, admin_user, None,
                          [ is_admin |-> ~users[user_id].is_admin ])
                 /\ UNCHANGED <<students, tokens, fifth_at, last_fail, now, passwordVars,
                                sessionVars, learningVars, middlewareVars>>
    IN AdminOnly(func, arg, token, Body)

\* Depends(verify_admin_user) has returned the administrator for a request
\* to toggle_user_admin_status or deactivate_user; the endpoint's body, which
\* runs after further awaits, has not selected the target user yet
verify_admin_user_begin(func, token, user_id) ==
    LET current_user == get_current_user(token)
    IN /\ current_user # None
       /\ verify_admin_user(current_user)
       /\ Len(pending) < MaxPending
       /\ pending' = Append(pending, [ op |-> func, arg |-> <<token, user_id>>,
                                       user |-> current_user, target |-> user_id ])
       /\ UNCHANGED <<accountVars, now, resp, passwordVars, limiterVars, middlewareVars,
                      learningVars>>

\* the body of toggle_user_admin_status, in the session of a request whose
\* dependency returned admin_user earlier
toggle_user_admin_status_commit(i) ==
    LET session == pending[i]
        func == session.op
        arg == session.arg
        admin_user == session.user
        user_id == session.target
    IN /\ func = "toggle_user_admin_status"
       /\ pending' = Closed(i)
       /\ UNCHANGED limiterVars
       /\ IF user_id \notin DOMAIN users
          THEN Raise(func, arg, 404, admin_user, "User not found")
          ELSE IF user_id = admin_user
          THEN Raise(func, arg, 400, admin_user, "Cannot modify your own admin status")
          ELSE /\ users' = [users EXCEPT ![user_id].is_admin = ~users[user_id].is_admin]
               /\ Reply(func, arg, 200, admin_user, None,
                        [ is_admin |-> ~users[user_id].is_admin ])
               /\ UNCHANGED <<students, tokens, fifth_at, last_fail, now, passwordVars,
                              learningVars, middlewareVars>>

\* the body of deactivate_user, in the session of a request whose dependency
\* returned admin_user earlier
deactivate_user_commit(i) ==
    LET session == pending[i]
        func == session.op
        arg == session.arg
        admin_user == session.user
        user_id == session.target
    IN /\ func = "deactivate_user"
       /\ pending' = Closed(i)
       /\ UNCHANGED limiterVars
       /\ IF user_id \notin DOMAIN users
          THEN Raise(func, arg, 404, admin_user, "User not found")
          ELSE IF user_id = admin_user
          THEN Raise(func, arg, 400, admin_user, "Cannot deactivate your own account")
          ELSE /\ users' = [users EXCEPT ![user_id].is_active = FALSE]
               /\ students' = DeactivatedStudents(user_id)
               /\ Reply(func, arg, 200, admin_user, None, <<>>)
               /\ UNCHANGED <<tokens, fifth_at, last_fail, now, passwordVars,
                              learningVars, middlewareVars>>

(***************************************************************************)
(* main.py: the application's own endpoints                                *)
(***************************************************************************)
\* GET /
root(client_ip) ==
    /\ resp' = Response("root", <<client_ip>>, 200, None, None, "healthy")
    /\ UNCHANGED <<accountVars, now, passwordVars, sessionVars, learningVars, limiterVars>>

\* GET /health
health_check(client_ip) ==
    /\ resp' = Response("health_check", <<client_ip>>, 200, None, None, "healthy")
    /\ UNCHANGED <<accountVars, now, passwordVars, sessionVars, learningVars, limiterVars>>

(***************************************************************************)
(* middleware/logging.py: RateLimitMiddleware                              *)
(***************************************************************************)
\* [t for t in times if t > current_time - self.period]
Recent(times) == SelectSeq(times, LAMBDA t : t > now - period)

\* "Clean old requests": the IPs that keep an entry
CleanedRequests ==
    [ip \in {i \in DOMAIN mw_requests : Recent(mw_requests[i]) # <<>>} |-> mw_requests[ip]]

\* the test that answers 429, with > in place of >=
LimitReached_mut(recent_requests) == Len(recent_requests) > calls

\* the test that answers 429
LimitReached(recent_requests) == Len(recent_requests) >= calls

\* the 429 response's headers
RateLimitHeaders ==
    [ Retry_After           |-> period,
      X_RateLimit_Limit     |-> calls,
      X_RateLimit_Remaining |-> 0,
      X_RateLimit_Reset     |-> now + period ]

\* RateLimitMiddleware.dispatch around the endpoint call_next leads to; func
\* names that endpoint.  mw_log keeps, per IP, the times of the requests that
\* were handed to call_next.
dispatch(client_ip, func, call_next) ==
    IF client_ip \in LocalHosts THEN
        /\ call_next
        /\ UNCHANGED <<mw_requests, mw_log>>
    ELSE
        LET cleaned == CleanedRequests
            recent_requests == IF client_ip \in DOMAIN cleaned
                               THEN Recent(cleaned[client_ip]) ELSE <<>>
        IN IF client_ip \in DOMAIN cleaned /\ LimitReached(recent_requests) THEN
               /\ mw_requests' = cleaned
               /\ resp' = [Response(func, <<client_ip>>, 429, None, None, "Rate limit exceeded")
                              EXCEPT !.headers = RateLimitHeaders]
               /\ security_headers' = {}
               /\ UNCHANGED <<accountVars, now, passwordVars, sessionVars, learningVars, limiterVars, mw_log,
                              error_logs>>
           ELSE
               /\ mw_requests' = Ext(cleaned, client_ip, recent_requests \o <<now>>)
               /\ mw_log' = Ext(mw_log, client_ip,
                                (IF client_ip \in DOMAIN mw_log THEN mw_log[client_ip] ELSE <<>>)
                                    \o <<now>>)
               /\ call_next

(***************************************************************************)
(* middleware/logging.py: the other middleware, and main.py's stack        *)
(***************************************************************************)
\* the headers SecurityHeadersMiddleware adds
SecurityHeaders ==
    { "X-Content-Type-Options", "X-Frame-Options", "X-XSS-Protection",
      "Strict-Transport-Security", "Referrer-Policy", "Content-Security-Policy" }

\* the response to an exception no handler caught: it passes every middleware
\* as an exception and Starlette's ServerErrorMiddleware answers 500
Unhandled(response) == response.status = 500 /\ response.detail = "Internal Server Error"

\* RequestLoggingMiddleware.dispatch: _log_error stores an ErrorLog row and the
\* exception is raised again
RequestLoggingDispatch(call_next) ==
    /\ call_next
    /\ IF Unhandled(resp')
       THEN /\ Cardinality(DOMAIN error_logs) < MaxErrors
            /\ error_logs' = Ext(error_logs, NewId(error_logs), [resolved |-> FALSE])
       ELSE error_logs' = error_logs

\* SecurityHeadersMiddleware.dispatch: response.headers.update(...) on the
\* response call_next returns; an exception passes through untouched
SecurityHeadersDispatch(call_next) ==
    /\ call_next
    /\ security_headers' = IF Unhandled(resp') THEN {} ELSE SecurityHeaders

\* main.py: add_middleware puts each middleware around those added before
\* it, so a request meets RateLimitMiddleware first, then
\* SecurityHeadersMiddleware, then RequestLoggingMiddleware, then the endpoint
app(client_ip, func, endpoint) ==
    dispatch(client_ip, func, SecurityHeadersDispatch(RequestLoggingDispatch(endpoint)))

(***************************************************************************)
(* The clock                                                               *)
(***************************************************************************)
Tick(step, horizon) ==
    /\ now + step <= horizon * step
    /\ now' = now + step
    /\ UNCHANGED <<accountVars, resp, passwordVars, sessionVars, learningVars, limiterVars, middlewareVars>>

(***************************************************************************)
(* Accounts, login and tokens over time                                    *)
(***************************************************************************)
SeededUsers ==
    ADMIN_ID :> [ email                 |-> ADMIN_EMAIL,
                  password_hash         |-> get_password_hash(ADMIN_PASSWORD),
                  is_active             |-> TRUE,
                  is_admin              |-> TRUE,
                  failed_login_attempts |-> 0,
                  locked_until          |-> NoTime,
                  email_verified             |-> TRUE,
                  email_verification_token   |-> NoToken,
                  email_verification_expires |-> NoTime ]

\* the database after init_db.py, no request served yet
InitAccounts ==
    /\ users = SeededUsers
    /\ students = <<>>
    /\ tokens = {}
    /\ now = 0
    /\ resp = Response("init", <<>>, 0, None, None, "")
    /\ fifth_at = [u \in UserIds |-> NoTime]
    /\ last_fail = [u \in UserIds |-> NoTime]

\* no password validated yet
InitPassword == pw_input = <<>> /\ pw_outcome = <<>>

\* _rate_limit_storage = {}
InitLimiter == rate_limit_storage = <<>> /\ rl_log = <<>>

\* RateLimitMiddleware.__init__: self.requests = {}
InitMiddleware ==
    /\ mw_requests = <<>> /\ mw_log = <<>>
    /\ error_logs = <<>> /\ security_headers = {}

\* no request is in flight
InitSessions == pending = <<>>

\* no student has any row yet
InitLearning ==
    /\ student_assessments = <<>>
    /\ student_learning_paths = <<>>
    /\ student_module_progress = <<>>
    /\ student_achievements = <<>>
    /\ user_actions = {}
    /\ content_engagement = {}

(***************************************************************************)
(* The application: two parents and their students                         *)
(***************************************************************************)
\* the ids the two parents' students get, and the ids of the first assessment
\* row and of one that does not exist
StudentIds == {1, 2}
AssessmentIds == {1, 2}
ModuleIds == 1..MaxModules

Init == InitAccounts /\ InitPassword /\ InitLimiter /\ InitMiddleware /\ InitLearning /\ InitSessions

\* The requests sent: the first parent to register asks for every student,
\* the other parents ask only for students that are not theirs.
FIRST_PARENT == ADMIN_ID + 1
Asks(token, student_id) ==
    token.sub = FIRST_PARENT \/ OwnedStudent(token.sub, student_id) = None

Next ==
    \/ \E e \in {Email("a"), Email("b")} : Register(LOCALHOST, e, PwStrong, MIN_AGE)
    \/ \E token \in tokens, student_id \in StudentIds :
        /\ Asks(token, student_id)
        /\ \/ get_student_dashboard(LOCALHOST, token, student_id)
           \/ update_student_profile(LOCALHOST, token, student_id, MAX_AGE)
           \/ get_student_achievements(LOCALHOST, token, student_id)
           \/ track_student_activity(LOCALHOST, token, student_id, "interaction")
           \/ start_assessment(LOCALHOST, token, student_id)
           \/ \E assessment_id \in AssessmentIds :
                 complete_assessment(LOCALHOST, token, student_id, assessment_id,
                                     <<"g","a","m","e","s">>, 80)
           \/ get_assessment_results(LOCALHOST, token, student_id)
           \/ get_path_recommendations(LOCALHOST, token, student_id)
           \/ retake_assessment(LOCALHOST, token, student_id)
           \/ get_assessment_analytics(LOCALHOST, token, student_id)
           \/ get_learning_path_detail(LOCALHOST, token, student_id, GAME_PATH)
           \/ \E module_id \in ModuleIds : start_module(LOCALHOST, token, student_id, module_id)
           \/ \E module_id \in ModuleIds :
                 update_module_progress(LOCALHOST, token, student_id, module_id, 50)
           \/ \E module_id \in ModuleIds : complete_module(LOCALHOST, token, student_id, module_id)
           \/ get_student_progress(LOCALHOST, token, student_id)
           \/ get_module_detail(LOCALHOST, token, student_id, 1)
           \/ assign_learning_path(LOCALHOST, token, student_id, GAME_PATH)
           \/ get_learning_analytics(LOCALHOST, token, student_id)

Spec == Init /\ [][Next]_vars

(***************************************************************************)
(* Registration and profile updates                                        *)
(***************************************************************************)
InitProfile == InitAccounts /\ InitPassword /\ InitLimiter /\ InitMiddleware /\ InitLearning /\ InitSessions

NextProfile ==
    \/ \E e \in {Email("a"), Email("A"), Email("b")}, age \in Ages :
          Register(LOCALHOST, e, PwStrong, age)
    \/ \E token \in tokens, student_id \in StudentIds, age \in Ages \cup {Unset} :
          update_student_profile(LOCALHOST, token, student_id, age)

SpecProfile == InitProfile /\ [][NextProfile]_vars

InitLogin == InitAccounts /\ InitPassword /\ InitLimiter /\ InitMiddleware /\ InitLearning /\ InitSessions

NextLogin ==
    \/ Register(LOCALHOST, Email("a"), PwStrong, MIN_AGE)
    \/ \E p \in {PwStrong, PwOther} : Login(LOCALHOST, Email("A"), p)
    \/ Tick(QuarterHour, LoginTicks)

SpecLogin == InitLogin /\ [][NextLogin]_vars

(***************************************************************************)
(* Tokens and deactivation over time                                       *)
(***************************************************************************)
InitToken == InitAccounts /\ InitPassword /\ InitLimiter /\ InitMiddleware /\ InitLearning /\ InitSessions

NextToken ==
    \/ \E e \in {Email("a"), Email("b")} : Register(LOCALHOST, e, PwStrong, MIN_AGE)
    \/ Login(LOCALHOST, ADMIN_EMAIL, ADMIN_PASSWORD)
    \/ \E e \in {Email("a"), Email("b")} : Login(LOCALHOST, e, PwStrong)
    \/ \E t \in tokens \cup ForgedTokens : GetCurrentUser(t)
    \/ \E t \in tokens : \E u \in UserIds : DeactivateUser(t, u)
    \/ Tick(HalfHour, TokenTicks)
    \/ Tick(SESSION_TIMEOUT + HalfHour, 1)

SpecToken == InitToken /\ [][NextToken]_vars

(***************************************************************************)
(* The rate-limited auth endpoints over time                               *)
(***************************************************************************)
InitRate == InitAccounts /\ InitPassword /\ InitLimiter /\ InitMiddleware /\ InitLearning /\ InitSessions

\* register with an age the handler refuses and login with an unknown email:
\* the limiter counts the call whatever the handler answers
NextRate ==
    \/ \E c \in Clients : Register(c, Email("a"), PwStrong, 4)
    \/ \E c \in Clients : Login(c, Email("b"), PwStrong)
    \/ Tick(AUTH_WINDOW \div 2, RateTicks)

SpecRate == InitRate /\ [][NextRate]_vars

(***************************************************************************)
(* Requests through the rate-limit middleware over time                    *)
(***************************************************************************)
InitMw == InitAccounts /\ InitPassword /\ InitLimiter /\ InitMiddleware /\ InitLearning /\ InitSessions

NextMw ==
    \/ \E c \in {LOCALHOST, REMOTE, OTHER_REMOTE} : app(c, "health_check", health_check(c))
    \/ app(REMOTE, "root", root(REMOTE))
    \/ Tick(period \div 2, MwTicks)

SpecMw == InitMw /\ [][NextMw]_vars

(***************************************************************************)
(* The admin endpoints                                                     *)
(***************************************************************************)
InitAdmin == InitAccounts /\ InitPassword /\ InitLimiter /\ InitMiddleware /\ InitLearning /\ InitSessions

ErrorIds == 1..MaxErrors
\* a verification token nobody was given
UNKNOWN_TOKEN == <<"verification", None>>

\* parents register, the admin logs in, failing requests fill the error log,
\* and every token is tried on every admin endpoint
NextAdmin ==
    \/ \E e \in {Email("a"), Email("b")} : Register(LOCALHOST, e, PwStrong, MIN_AGE)
    \/ Login(LOCALHOST, ADMIN_EMAIL, ADMIN_PASSWORD)
    \/ app(LOCALHOST, "verify_email", verify_email(UNKNOWN_TOKEN))
    \/ \E t \in tokens :
          \/ get_admin_dashboard(t)
          \/ get_all_users(t)
          \/ get_all_students(t)
          \/ get_system_errors(t)
          \/ \E error_id \in ErrorIds : resolve_error(t, error_id)
          \/ get_analytics_summary(t)
          \/ get_system_health(t)
          \/ \E u \in UserIds : toggle_user_admin_status(t, u)
          \/ \E u \in UserIds : DeactivateUser(t, u)

SpecAdmin == InitAdmin /\ [][NextAdmin]_vars

(***************************************************************************)
(* Two administrators' requests overlapping                                *)
(***************************************************************************)
InitAdmins == InitAccounts /\ InitPassword /\ InitLimiter /\ InitMiddleware /\ InitLearning /\ InitSessions

AdminChanges == {"toggle_user_admin_status", "deactivate_user"}

\* a parent registers, the admin logs in and may make the parent an admin;
\* from then on both may change each other, one call at a time or overlapping
NextAdmins ==
    \/ Register(LOCALHOST, Email("a"), PwStrong, MIN_AGE)
    \/ Login(LOCALHOST, ADMIN_EMAIL, ADMIN_PASSWORD)
    \/ \E t \in tokens, u \in UserIds :
          \/ toggle_user_admin_status(t, u)
          \/ DeactivateUser(t, u)
          \/ \E func \in AdminChanges : verify_admin_user_begin(func, t, u)
    \/ \E i \in DOMAIN pending : toggle_user_admin_status_commit(i)
    \/ \E i \in DOMAIN pending : deactivate_user_commit(i)

SpecAdmins == InitAdmins /\ [][NextAdmins]_vars

(***************************************************************************)
(* Email verification over time                                            *)
(***************************************************************************)
InitVerify == InitAccounts /\ InitPassword /\ InitLimiter /\ InitMiddleware /\ InitLearning /\ InitSessions

VerifyTicks == 3

NextVerify ==
    \/ \E e \in {Email("a"), Email("b")} : Register(LOCALHOST, e, PwStrong, MIN_AGE)
    \/ \E t \in {generate_verification_token(u) : u \in UserIds} \cup {UNKNOWN_TOKEN} :
          app(LOCALHOST, "verify_email", verify_email(t))
    \/ Tick(VERIFICATION_SECONDS \div 2, VerifyTicks)

SpecVerify == InitVerify /\ [][NextVerify]_vars

(***************************************************************************)
(* One student's paths and modules                                         *)
(***************************************************************************)
InitLearner == InitAccounts /\ InitPassword /\ InitLimiter /\ InitMiddleware /\ InitLearning /\ InitSessions

\* the student of the first parent, and the modules of two paths
LEARNER == 1
LearnerPaths == {GAME_PATH, AI_PATH}
LearnerModules == {ModuleOf(p, k) : p \in LearnerPaths, k \in 1..MaxModules}

NextLearner ==
    \/ Register(LOCALHOST, Email("a"), PwStrong, MIN_AGE)
    \/ \E token \in tokens :
          \/ \E p \in LearnerPaths \cup {GENERAL_PATH} :
                assign_learning_path(LOCALHOST, token, LEARNER, p)
          \/ \E m \in LearnerModules : start_module(LOCALHOST, token, LEARNER, m)
          \/ \E m \in LearnerModules : update_module_progress(LOCALHOST, token, LEARNER, m, 50)
          \/ \E m \in LearnerModules : complete_module(LOCALHOST, token, LEARNER, m)
          \/ get_student_dashboard(LOCALHOST, token, LEARNER)
          \/ \E p \in LearnerPaths : get_learning_path_detail(LOCALHOST, token, LEARNER, p)

SpecLearner == InitLearner /\ [][NextLearner]_vars

(***************************************************************************)
(* One student's assessment                                                *)
(***************************************************************************)
InitAssess == InitAccounts /\ InitPassword /\ InitLimiter /\ InitMiddleware /\ InitLearning /\ InitSessions

\* recommended_path as submitted: the exact name, a slug after lower() and replace, a keyword, two keywords, 'ai' first in the table, nothing matches
NAME_EXACT == <<"G","a","m","e"," ","D","e","v","e","l","o","p","m","e","n","t">>
NAME_SLUG == <<"w","e","b"," ","d","e","v","e","l","o","p","m","e","n","t">>
NAME_KEYWORD == <<"g","a","m","e","s">>
NAME_TWO_KEYWORDS == <<"r","o","b","o","t","s"," ","a","n","d"," ","a","i">>
NAME_UNKNOWN == <<"x","y","z">>
PathNames == {NAME_EXACT, NAME_SLUG, NAME_KEYWORD, NAME_TWO_KEYWORDS, NAME_UNKNOWN}

NextAssess ==
    \/ Register(LOCALHOST, Email("a"), PwStrong, MIN_AGE)
    \/ \E token \in tokens :
          \/ start_assessment(LOCALHOST, token, LEARNER)
          \/ \E assessment_id \in AssessmentIds, name \in PathNames :
                complete_assessment(LOCALHOST, token, LEARNER, assessment_id, name, 80)
          \/ retake_assessment(LOCALHOST, token, LEARNER)
          \/ assign_learning_path(LOCALHOST, token, LEARNER, GAME_PATH)

SpecAssess == InitAssess /\ [][NextAssess]_vars

(***************************************************************************)
(* One student's requests overlapping                                      *)
(***************************************************************************)
InitOverlap == InitAccounts /\ InitPassword /\ InitLimiter /\ InitMiddleware /\ InitLearning /\ InitSessions

\* the first module of each of the two paths
FirstModules == {ModuleOf(p, 1) : p \in LearnerPaths}

NextOverlap ==
    \/ Register(LOCALHOST, Email("a"), PwStrong, MIN_AGE)
    \/ \E token \in tokens :
          \/ start_assessment_begin(LOCALHOST, token, LEARNER)
          \/ start_assessment(LOCALHOST, token, LEARNER)
          \/ \E p \in LearnerPaths : assign_learning_path(LOCALHOST, token, LEARNER, p)
          \/ \E m \in FirstModules : start_module(LOCALHOST, token, LEARNER, m)
          \/ \E m \in FirstModules : complete_module_begin(LOCALHOST, token, LEARNER, m)
    \/ \E i \in DOMAIN pending : start_assessment_commit(i)
    \/ \E i \in DOMAIN pending : complete_module_commit(i)

SpecOverlap == InitOverlap /\ [][NextOverlap]_vars

(***************************************************************************)
(* Progress updates of one module overlapping                              *)
(***************************************************************************)
InitProgress == InitAccounts /\ InitPassword /\ InitLimiter /\ InitMiddleware /\ InitLearning /\ InitSessions

\* the module worked on and the percentages the client reports
PROGRESS_MODULE == ModuleOf(GAME_PATH, 1)
Percentages == {30, 60}

NextProgress ==
    \/ Register(LOCALHOST, Email("a"), PwStrong, MIN_AGE)
    \/ \E token \in tokens :
          \/ assign_learning_path(LOCALHOST, token, LEARNER, GAME_PATH)
          \/ start_module(LOCALHOST, token, LEARNER, PROGRESS_MODULE)
          \/ \E pct \in Percentages :
                update_module_progress(LOCALHOST, token, LEARNER, PROGRESS_MODULE, pct)
          \/ \E pct \in Percentages :
                update_module_progress_begin(LOCALHOST, token, LEARNER, PROGRESS_MODULE, pct)
          \/ complete_module(LOCALHOST, token, LEARNER, PROGRESS_MODULE)
    \/ \E i \in DOMAIN pending : update_module_progress_commit(i)

SpecProgress == InitProgress /\ [][NextProgress]_vars

(***************************************************************************)
(* Password validation on its own                                          *)
(***************************************************************************)
\* one character of each class the checks look for
PasswordAlphabet == {"A", "a", "1", "!"}
\* passwords start empty or from a common password, in either letter case
PasswordStems == {<<>>, <<"A","d","m","i","n">>} \cup common_passwords

TypePassword(c) ==
    /\ Len(pw_input) < MaxPasswordLen
    /\ pw_input' = Append(pw_input, c)
    /\ pw_outcome' = <<>>
    /\ UNCHANGED <<accountVars, learningVars, now, resp, sessionVars, limiterVars, middlewareVars>>

\* validate_password(password): raises 400 with the feedback, or returns
ValidatePassword ==
    /\ pw_outcome = <<>>
    /\ pw_outcome' = << [ accepted   |-> validate_password(pw_input),
                          validation |-> validate_password_strength(pw_input) ] >>
    /\ UNCHANGED <<accountVars, learningVars, now, resp, pw_input, sessionVars, limiterVars, middlewareVars>>

InitPw ==
    /\ InitAccounts /\ InitLimiter /\ InitMiddleware /\ InitLearning /\ InitSessions
    /\ pw_input \in PasswordStems
    /\ pw_outcome = <<>>

NextPw ==
    \/ \E c \in PasswordAlphabet : TypePassword(c)
    \/ ValidatePassword

SpecPw == InitPw /\ [][NextPw]_vars

(***************************************************************************)
(* Properties                                                              *)
(***************************************************************************)
\* a step that is a call of operation op (the clock stands still during it)
Call(op) == now' = now /\ resp'.op = op

\* C2: get_current_user lets a request through only if its token verifies
\* (was issued by the server and has not expired) and names an existing user
\* with is_active = true; a deactivated user stays deactivated, every later
\* request bearing one of their tokens gets 401, login with their email gets
\* 401, and no token is issued to them any more.
C2_AuthOnlyActive ==
    [][ /\ (Call("get_current_user") /\ resp'.status = 200) =>
              /\ resp'.arg \in tokens
              /\ ~(resp'.arg.exp < now)
              /\ resp'.arg.sub \in DOMAIN users
              /\ users[resp'.arg.sub].is_active
              /\ resp'.user = resp'.arg.sub
        /\ \A u \in DOMAIN users : ~users[u].is_active =>
              /\ ~users'[u].is_active
              /\ \A t \in tokens' \ tokens : t.sub # u
              /\ (Call("get_current_user") /\ resp'.arg.sub = u) => resp'.status = 401
              /\ (Call("login") /\ Lower(resp'.arg[1]) = users[u].email) => resp'.status = 401
      ]_vars

\* C2 witness: a request bearing an unexpired token issued to a user who was
\* deactivated afterwards has been rejected
C2_Witness ==
    /\ resp.op = "get_current_user" /\ resp.status = 401
    /\ resp.arg \in tokens /\ ~(resp.arg.exp < now)
    /\ ~users[resp.arg.sub].is_active

\* the account an email names at login, if it is active
Target(email) == ActiveUserByEmail(email)

\* C5: once failed_login_attempts has reached five (five failures with no
\* successful login in between) the account has a lock of at least 30 minutes
\* from the fifth failure, and while locked_until lies ahead every login on it
\* is refused, 423 for the correct password and 401 for a wrong one, and no
\* token is issued.
C5_LockedWhileLockAhead ==
    /\ [](\A u \in DOMAIN users :
            users[u].failed_login_attempts >= MAX_FAILED_LOGINS =>
                /\ users[u].locked_until # NoTime
                /\ fifth_at[u] # NoTime
                /\ users[u].locked_until >= fifth_at[u] + LOCKOUT_SECONDS)
    /\ [][ \A u \in DOMAIN users :
             ( /\ Call("login") /\ Target(resp'.arg[1]) = u
               /\ users[u].failed_login_attempts >= MAX_FAILED_LOGINS
               /\ now < users[u].locked_until )
             => /\ tokens' = tokens
                /\ resp'.status = IF verify_password(resp'.arg[2], users[u].password_hash)
                                  THEN 423 ELSE 401
         ]_vars

\* C5 witness: a login with the correct password was refused with 423 on an
\* account with five failures
C5_Witness ==
    /\ resp.op = "login" /\ resp.status = 423
    /\ users[resp.user].failed_login_attempts >= MAX_FAILED_LOGINS
    /\ verify_password(resp.arg[2], users[resp.user].password_hash)

\* C6 as stated: a login with the correct password made 30 minutes or more
\* after the fifth consecutive failure succeeds, whatever was attempted since.
C6_Original ==
    [][ \A u \in DOMAIN users :
          ( /\ Call("login") /\ Target(resp'.arg[1]) = u
            /\ verify_password(resp'.arg[2], users[u].password_hash)
            /\ users[u].failed_login_attempts >= MAX_FAILED_LOGINS
            /\ now >= fifth_at[u] + LOCKOUT_SECONDS )
          => resp'.status = 200
      ]_vars

\* C6 amended: a login with the correct password made 30 minutes or more
\* after the latest failed login of the account succeeds and returns a token.
C6_UnlockedAfterLastFailure ==
    [][ \A u \in DOMAIN users :
          ( /\ Call("login") /\ Target(resp'.arg[1]) = u
            /\ verify_password(resp'.arg[2], users[u].password_hash)
            /\ users[u].failed_login_attempts >= MAX_FAILED_LOGINS
            /\ now >= last_fail[u] + LOCKOUT_SECONDS )
          => /\ resp'.status = 200
             /\ \E t \in tokens' : t.sub = u /\ t.iat = now
             /\ users'[u].failed_login_attempts = 0
      ]_vars

\* C6 witness: a login succeeded on an account that had been locked and had
\* failed again during the lockout
C6_Witness ==
    /\ resp.op = "login" /\ resp.status = 200
    /\ fifth_at[resp.user] # NoTime
    /\ last_fail[resp.user] > fifth_at[resp.user]
    /\ now >= last_fail[resp.user] + LOCKOUT_SECONDS

\* C7 as stated: an access token is accepted during the expires_in = 3600
\* seconds after it was issued and rejected with 401 at any later time.
C7_TokenLivesExpiresIn ==
    [][ (Call("get_current_user") /\ resp'.arg \in tokens
            /\ resp'.arg.sub \in DOMAIN users /\ users[resp'.arg.sub].is_active)
        => (resp'.status = 200 <=> now <= resp'.arg.iat + EXPIRES_IN)
      ]_vars

\* the requirements the feedback messages state
MeetsRequirements(p) ==
    /\ Len(p) >= PASSWORD_MIN_LENGTH
    /\ \E i \in DOMAIN p : p[i] \in UpperChars
    /\ \E i \in DOMAIN p : p[i] \in LowerChars
    /\ \E i \in DOMAIN p : p[i] \in DigitChars
    /\ \E i \in DOMAIN p : p[i] \in SpecialChars
    /\ Lower(p) \notin common_passwords

\* C8 as stated: with REQUIRE_STRONG_PASSWORDS on, a password that
\* validate_password accepts meets every requirement (length 8, uppercase,
\* lowercase, digit, special character, not common), i.e. is_valid implies an
\* empty feedback list.
C8_AcceptedMeetsAll ==
    (pw_outcome # <<>> /\ pw_outcome[1].accepted) =>
        /\ MeetsRequirements(pw_input)
        /\ pw_outcome[1].validation.feedback = <<>>

\* the limit the decorator of an endpoint was given
LimitOf(func) == IF func = "register" THEN REGISTER_LIMIT ELSE LOGIN_LIMIT

\* the calls of one key the limiter admitted at a time in [from, from + length)
AdmittedIn(key, from, length) ==
    {i \in DOMAIN rl_log[key] : from <= rl_log[key][i] /\ rl_log[key][i] < from + length}

\* C3 as stated: rate_limit_strict(N, W) admits at most N calls of one
\* endpoint from one client in any interval of length W (3 per 300 s for
\* register, 5 per 300 s for login).
C3_Original ==
    \A key \in DOMAIN rl_log : \A i \in DOMAIN rl_log[key] :
        Cardinality(AdmittedIn(key, rl_log[key][i], AUTH_WINDOW)) <= LimitOf(key[1])

\* C3 amended: the limiter counts per clock-aligned window [kW, (k+1)W): at
\* most N calls of one endpoint from one non-local client are admitted in each
\* aligned window, so at most 2N in any interval of length W, and a call
\* answered 429 found N calls already admitted in its aligned window.
C3_AtMostNPerAlignedWindow ==
    [][ /\ \A key \in DOMAIN rl_log' : \A i \in DOMAIN rl_log'[key] :
            /\ Cardinality(AdmittedIn(key, (rl_log[key][i] \div AUTH_WINDOW) * AUTH_WINDOW,
                                      AUTH_WINDOW))' <= LimitOf(key[1])
            /\ Cardinality(AdmittedIn(key, rl_log[key][i], AUTH_WINDOW))' <= 2 * LimitOf(key[1])
        /\ \A op \in {"register", "login"} :
            (Call(op) /\ resp'.status = 429) =>
                LET key == Key(op, resp'.arg[Len(resp'.arg)])
                IN /\ key \in DOMAIN rl_log
                   /\ rl_log' = rl_log
                   /\ Cardinality(AdmittedIn(key, WindowStart(AUTH_WINDOW), AUTH_WINDOW))
                          = LimitOf(op)
      ]_vars

\* C3 witness: a register call refused with 429 although the client has had
\* more than three registers admitted within the last 300 seconds.
C3_Witness ==
    /\ resp.status = 429 /\ resp.op = "register"
    /\ LET key == Key("register", REMOTE)
       IN /\ key \in DOMAIN rl_log
          /\ Cardinality(AdmittedIn(key, now - AUTH_WINDOW + 1, AUTH_WINDOW)) > REGISTER_LIMIT

\* the requests of one IP handed to the application at a time in (upto - period, upto]
PassedWithin(ip, upto) ==
    {i \in DOMAIN mw_log[ip] : mw_log[ip][i] > upto - period /\ mw_log[ip][i] <= upto}

\* C4: the middleware hands at most `calls` requests of one non-localhost IP
\* to the application in any interval of `period` seconds (an interval
\* (T - period, T]: a request exactly `period` old is no longer "younger than
\* period"); a request that arrives when `calls` passed requests of its IP
\* are younger than `period` gets 429 with Retry-After, is not handed on and
\* is not recorded, and any other request is handed on.
C4_AtMostCallsPerPeriod ==
    [][ /\ \A ip \in DOMAIN mw_log' : \A i \in DOMAIN mw_log'[ip] :
            Cardinality(PassedWithin(ip, mw_log[ip][i]))' <= calls
        /\ \A op \in {"root", "health_check"} :
            Call(op) =>
                LET ip == resp'.arg[1]
                    full == ip \in DOMAIN mw_log
                              /\ Cardinality(PassedWithin(ip, now)) = calls
                IN /\ resp'.status = 429 <=> full
                   /\ full =>
                        /\ resp'.headers.Retry_After = period
                        /\ mw_log' = mw_log
                        /\ mw_requests'[ip] = Recent(mw_requests[ip])
                   /\ ~full => resp'.status = 200
      ]_vars

\* C4 witness: a request refused with 429 while a request of the same IP
\* admitted a whole period ago is no longer counted.
C4_Witness ==
    /\ resp.status = 429 /\ resp.op = "health_check" /\ resp.arg[1] = REMOTE
    /\ REMOTE \in DOMAIN mw_log
    /\ Cardinality(PassedWithin(REMOTE, now)) = calls
    /\ Len(mw_log[REMOTE]) > calls

\* the endpoints that take a student_id
StudentOps ==
    { "get_student_dashboard", "update_student_profile", "get_student_achievements",
      "track_student_activity", "start_assessment", "complete_assessment",
      "get_assessment_results", "get_path_recommendations", "retake_assessment",
      "get_assessment_analytics", "get_learning_path_detail", "start_module",
      "update_module_progress", "complete_module", "get_student_progress",
      "get_module_detail", "assign_learning_path", "get_learning_analytics" }

\* every row that belongs to one student
StudentData(s) ==
    << {students[x] : x \in {s} \cap DOMAIN students},
       {<<a, student_assessments[a]>> : a \in AssessmentsOf(s)},
       {<<p, student_learning_paths[p]>> : p \in PathsOf(s)},
       {<<p, student_module_progress[p]>> : p \in ProgressOf(s)},
       {<<a, student_achievements[a]>> : a \in AchievementsOf(s)},
       {a \in user_actions : a[1] = s},
       {c \in content_engagement : c[1] = s} >>

\* an active student of that user
IsActiveStudentOf(user, s) ==
    s \in DOMAIN students /\ students[s].user_id = user /\ students[s].is_active

\* C1: an authenticated call of an endpoint that takes a student_id, for a
\* student that is not an active student of the caller, answers 404 "Student
\* not found" with no data in the body; and whatever the call answers, the
\* body carries no student that is not the caller's and the rows of every
\* such student are left as they were.
C1_OnlyOwnStudents ==
    [][ \A op \in StudentOps :
          (Call(op) /\ resp'.status # 401 /\ resp'.status # 429) =>
             /\ ~IsActiveStudentOf(resp'.user, resp'.arg[2]) =>
                   /\ resp'.status = 404
                   /\ resp'.detail = "Student not found"
                   /\ resp'.student = None
                   /\ resp'.data = <<>>
             /\ \A s \in DOMAIN students :
                   ~IsActiveStudentOf(resp'.user, s) =>
                       /\ resp'.student # s
                       /\ StudentData(s)' = StudentData(s)
      ]_vars

\* C1 witness: a parent asked to change the profile of another parent's
\* student, who has an assessment, a learning path and module progress, and
\* got 404.
C1_Witness ==
    /\ resp.op = "update_student_profile" /\ resp.status = 404
    /\ resp.user \in DOMAIN users
    /\ \E s \in DOMAIN students :
          /\ s = resp.arg[2]
          /\ students[s].is_active
          /\ students[s].user_id # resp.user
          /\ AssessmentsOf(s) # {} /\ PathsOf(s) # {} /\ ProgressOf(s) # {}

\* C9 as stated: every stored student has an age between 5 and 18, whatever
\* register and update_student_profile calls were made.
C9_StoredAgeInRange ==
    \A s \in DOMAIN students :
        MIN_AGE <= students[s].age /\ students[s].age <= MAX_AGE

\* C10 as stated: a register call whose email equals, letter case ignored, the
\* stored email of an existing user answers 400 "Email address is already
\* registered" and creates no user and no student.
C10_DuplicateEmailIs400 ==
    [][ (Call("register")
            /\ validate_email(resp'.arg[1]) /\ validate_password(resp'.arg[2])
            /\ validate_student_age(resp'.arg[3])
            /\ \E u \in DOMAIN users : users[u].email = Lower(resp'.arg[1]))
        => /\ resp'.status = 400
           /\ resp'.detail = "Email address is already registered"
           /\ users' = users /\ students' = students
      ]_vars

\* the operations of routers/admin.py
AdminOps ==
    { "get_admin_dashboard", "get_all_users", "get_all_students", "get_system_errors",
      "resolve_error", "get_analytics_summary", "get_system_health",
      "toggle_user_admin_status", "deactivate_user" }

C12_NoActiveStudentOfInactiveUser ==
    \A s \in DOMAIN students :
        students[s].is_active => users[students[s].user_id].is_active

\* C12 witness: a parent with a student has just been deactivated
C12_Witness ==
    /\ resp.op = "deactivate_user" /\ resp.status = 200
    /\ \E s \in DOMAIN students :
          /\ students[s].user_id = resp.arg[2]
          /\ ~students[s].is_active
          /\ ~users[resp.arg[2]].is_active

\* the user a token would verify: active, the stored token equal, not expired
Verifiable(token) ==
    {u \in DOMAIN users :
        /\ users[u].is_active
        /\ users[u].email_verification_token = token
        /\ users[u].email_verification_expires > now}

\* C13: verify_email(token) succeeds only for an active user whose stored
\* token equals the token and whose expiry is still ahead, and then sets
\* email_verified and clears the token and its expiry; in every other case it
\* answers 400 'Invalid or expired verification token' and changes no user.
C13_VerifyEmailOnce ==
    [][ Call("verify_email") =>
          IF Verifiable(resp'.arg[1]) # {}
          THEN /\ resp'.status = 200
               /\ \A u \in Verifiable(resp'.arg[1]) :
                     /\ users'[u].email_verified
                     /\ users'[u].email_verification_token = NoToken
                     /\ users'[u].email_verification_expires = NoTime
          ELSE /\ resp'.status = 400
               /\ resp'.detail = "Invalid or expired verification token"
               /\ users' = users
      ]_vars

\* C19: every response the application sends carries the headers set by
\* SecurityHeadersMiddleware, the 429 of RateLimitMiddleware included.
C19_EveryResponseHasSecurityHeaders ==
    resp.status # 0 => SecurityHeaders \subseteq security_headers

\* the progress rows of a student for a module with a given status
HasProgress(s, m) == \E p \in ProgressOf(s) : student_module_progress[p].module_id = m
HasCompleted(s, m) ==
    \E p \in ProgressOf(s) : /\ student_module_progress[p].module_id = m
                              /\ student_module_progress[p].status = "completed"

\* C14: modules unlock in order: if a student has a progress record for the
\* module with sort_order n > 1 of a path, the student's module with
\* sort_order n-1 of that path is completed; hence the completed modules of
\* a path form a prefix 1..m of the sort order.
C14_ModulesUnlockInOrder ==
    \A s \in DOMAIN students : \A m \in DOMAIN learning_modules :
        (HasProgress(s, m) /\ learning_modules[m].sort_order > 1) =>
            \A prev \in PathModules(learning_modules[m].path_id) :
                learning_modules[prev].sort_order < learning_modules[m].sort_order
                    => HasCompleted(s, prev)

\* C14 witness: a student has started the second module of a path
C14_Witness ==
    \E s \in DOMAIN students : \E m \in DOMAIN learning_modules :
        /\ learning_modules[m].sort_order > 1
        /\ HasProgress(s, m)
        /\ resp.op = "start_module" /\ resp.status = 200 /\ resp.arg[3] = m

\* the modules of a student's path row that the student has completed
CompletedOf(p) ==
    {m \in PathModules(student_learning_paths[p].path_id) :
        HasCompleted(student_learning_paths[p].student_id, m)}

\* floor(100 * c / t), 0 when t = 0
Floor100(c, t) == IF t = 0 THEN 0 ELSE (100 * c) \div t

C20_LockComputationsAgree ==
    [][ (Call("get_student_dashboard") /\ resp'.status \notin {401, 404, 429}) =>
          LET s == resp'.arg[2]
          IN \A p \in ActivePathsOf(s) :
               \A m \in PathModules(student_learning_paths[p].path_id) :
                  /\ resp'.status = 200
                  /\ m \in DOMAIN resp'.data.module_progress
                  /\ resp'.data.module_progress[m].is_locked =
                        PathDetailLocked(s, student_learning_paths[p].path_id, m)
                  /\ resp'.data.module_progress[m].is_locked = IsModuleLocked(s, m)
                  /\ (StartModuleError(s, m) = "") <=> ~IsModuleLocked(s, m)
      ]_vars

\* the path the claim names for each submitted name
ExpectedPath ==
    (NAME_EXACT :> GAME_PATH) @@ (NAME_SLUG :> WEB_PATH) @@ (NAME_KEYWORD :> GAME_PATH) @@
    (NAME_TWO_KEYWORDS :> AI_PATH) @@ (NAME_UNKNOWN :> GENERAL_PATH)

\* C18: whenever complete_assessment succeeds on a not yet completed
\* assessment, the assessment is stored as completed with the path found for
\* the submitted name (exact name, else slug, else first matching keyword), or
\* General Programming when none is found, and after the same step the
\* student has an active StudentLearningPath for that path and no other path
\* row was added or changed.
C18_CompletionAssignsPath ==
    [][ ( /\ Call("complete_assessment") /\ resp'.status = 200
          /\ resp'.arg[3] \in DOMAIN student_assessments
          /\ ~student_assessments[resp'.arg[3]].is_completed ) =>
          LET found == find_learning_path_by_name(resp'.arg[4])
              path == IF found # None THEN found ELSE GENERAL_PATH
          IN /\ student_assessments'[resp'.arg[3]].is_completed
             /\ student_assessments'[resp'.arg[3]].recommended_path_id = path
             /\ path \in DOMAIN learning_paths
             /\ path = ExpectedPath[resp'.arg[4]]
             /\ \E p \in DOMAIN student_learning_paths' :
                   /\ student_learning_paths'[p].student_id = resp'.arg[2]
                   /\ student_learning_paths'[p].path_id = path
                   /\ student_learning_paths'[p].is_active
             /\ \A p \in DOMAIN student_learning_paths' :
                   (p \in DOMAIN student_learning_paths => 
                       student_learning_paths'[p] # student_learning_paths[p])
                   => student_learning_paths'[p].path_id = path
      ]_vars

\* C18 witness: a first completion with a name nothing matches left the
\* student with General Programming as recommended and only path
C18_Witness ==
    /\ resp.op = "complete_assessment" /\ resp.status = 200
    /\ resp.arg[4] = NAME_UNKNOWN
    /\ student_assessments[resp.arg[3]].is_completed
    /\ student_assessments[resp.arg[3]].recommended_path_id = GENERAL_PATH
    /\ \A p \in PathsOf(resp.arg[2]) :
          student_learning_paths[p].path_id = GENERAL_PATH /\ student_learning_paths[p].is_active
    /\ PathsOf(resp.arg[2]) # {}

C17_OneAssessmentPerType ==
    /\ \A a, b \in DOMAIN student_assessments :
          ( /\ student_assessments[a].student_id = student_assessments[b].student_id
            /\ student_assessments[a].assessment_type = student_assessments[b].assessment_type )
          => a = b
    /\ ~(resp.op = "start_assessment" /\ resp.status = 500)

\* C21: a module's stored progress_percentage never decreases from one
\* committed state to the next, for every progress row, also when requests
\* for the same student and module overlap.
C21_ProgressNeverDecreases ==
    [][\A p \in DOMAIN student_module_progress :
          student_module_progress'[p].progress_percentage
              >= student_module_progress[p].progress_percentage]_vars

ActiveAdmins == {u \in DOMAIN users : users[u].is_active /\ users[u].is_admin}

====
